---- MODULE Spec2Model ----
(***************************************************************************)
(* shellm: a PTY relay with an escape-sequence responder (VtResponder),    *)
(* the relay thread around it, and the foreground thread that writes keys  *)
(* and accepted commands into the PTY.                                     *)
(*                                                                         *)
(* Bytes are the integers 0..255.  Rust slices are 0-based; the sequences  *)
(* here are 1-based, so every index is the Rust index plus one and the     *)
(* Option<usize> value None is the index 0.                                *)
(***************************************************************************)
EXTENDS Integers, Sequences, FiniteSets, TLC

VARIABLES
  ptyOut,     \* bytes the child has written to the PTY and the relay has not read yet
  writes,     \* number of writes the child has made
  cursor,     \* what crossterm::cursor::position() returns: [st, col, row] with
              \* st "ok" or "err", and st "unread" until a cursor query asks
  input,      \* every byte the relay has read so far (the chunks, concatenated)
  pending,    \* VtResponder.pending
  stdout,     \* every byte the relay has written to the real terminal
  resps,      \* the responses handed to on_response so far, in order
  respQ,      \* responses of the current process call not yet written
  filtered,   \* filtered bytes of the current process call not yet written
  relayPc,    \* position of the relay thread: "read", "respond", "done"
  childUp,    \* TRUE while the child shell has not exited
  ptyIn,      \* every byte written into the PTY, each with the writer and the
              \* number of the key, command or response it belongs to
  mainPc,     \* position of the main thread: "poll", "write", "chat", and at
              \* its end "done" (Ok), "failed" (Err) or "panicked"
  mainQ,      \* the write calls the main thread still has to make for the
              \* event it is handling
  keys,       \* number of events run_event_loop has read
  chat,       \* the locals of chat_mode: history, last_cmd, last_answer,
              \* last_reasoning, reasoning_expanded, last_reply_rows, buf
  chatEvts,   \* number of events chat_mode has read
  lastEvt,    \* the last event the foreground thread has read
  llmLast,    \* what the last llm.chat call of the overlay returned
  lastRender, \* size: the terminal size at the last render_reply_block call;
              \* base: the row count and the width of the collapsed block
              \* that the last expansion replaced
  screen,     \* what the overlay has on the terminal: below, the rows from the
              \* first row of the last reply block down to the prompt line
              \* (0: no block yet); printed, what the last turn of chat_mode
              \* wrote, call by call
  termSize,   \* size of the real terminal: [cols, rows]
  ptySize,    \* size the PTY has been given
  rawMode,    \* TRUE while the terminal is in raw mode
  pasteMode,  \* TRUE while bracketed paste is enabled
  ui_lang,    \* the UI language, "En" or "Zh"
  args,       \* the arguments of a function of chat.rs called on its own
  result      \* what that call returned

relayVars == <<ptyOut, writes, cursor, input, pending, stdout, resps,
               respQ, filtered, relayPc>>

mainVars == <<mainPc, mainQ, keys>>

fnVars == <<args, result>>

fgVars == <<chat, chatEvts, lastEvt, llmLast, lastRender, screen, termSize, ptySize,
            rawMode, pasteMode, ui_lang, args, result>>

vars == <<ptyOut, writes, cursor, input, pending, stdout, resps,
          respQ, filtered, relayPc, childUp, ptyIn, mainPc, mainQ, keys,
          chat, chatEvts, lastEvt, llmLast, lastRender, screen, termSize, ptySize,
          rawMode, pasteMode, ui_lang, args, result>>

----------------------------------------------------------------------------
(* Bytes the code names. *)
ESC == 27
BEL == 7
None == 0
BufSize == 1024
U16Max == 65535

(* Bounds of the model. *)
MaxWrites == 3
MaxKeys == 2
MaxChatEvents == 5
MaxTextLen == 3
MaxPieces == 3
MaxFragments == 3

(* ESC [ 6 n, ESC [ 5 n, ESC [ c and the two fixed answers. *)
QueryCursor == <<27, 91, 54, 110>>
QueryStatus == <<27, 91, 53, 110>>
QueryAttrs  == <<27, 91, 99>>
StatusOk    == <<27, 91, 48, 110>>
AttrsVt100  == <<27, 91, 63, 49, 59, 48, 99>>

(* What the child may write in one write call: bytes of every class the    *)
(* responder distinguishes, the CSI and OSC introducers, the string        *)
(* terminator, the three queries, and an OSC whose payload is the cursor   *)
(* query.                                                                  *)
(*   27 ESC   7 BEL   32 space (intermediate)   110 n (final byte)         *)
(*   80 P (DCS after ESC)   91 [   93 ]   92 \                            *)
CsiStart == <<27, 91>>
OscStart == <<27, 93>>
StringTerminator == <<27, 92>>
OscWithQuery == <<27, 93>> \o QueryCursor \o <<7>>
Menu == { <<27>>, <<7>>, <<32>>, <<110>>, <<80>>,
          CsiStart, OscStart, StringTerminator,
          QueryCursor, QueryStatus, QueryAttrs, OscWithQuery }

(* The answers of crossterm::cursor::position(): a failure, or the first   *)
(* column of the last row a u16 can hold.  The real cursor stays where it  *)
(* is, so the answer is the same at every query.                           *)
CursorStates == { [st |-> "err", col |-> 0, row |-> 0],
                  [st |-> "ok",  col |-> 0, row |-> U16Max] }

Unread == [st |-> "unread", col |-> 0, row |-> 0]

CursorAnswers == IF cursor = Unread THEN CursorStates ELSE {cursor}

Min(a, b) == IF a < b THEN a ELSE b

----------------------------------------------------------------------------
(* responder.rs *)

(* Variant of parse_csi_end: the final bytes are taken to start at 0x30    *)
RECURSIVE parse_csi_end_wide(_, _)
parse_csi_end_wide(buf, start) ==
  IF start > Len(buf) THEN None
  ELSE IF buf[start] \in 48..126 THEN start
  ELSE parse_csi_end_wide(buf, start + 1)

RECURSIVE parse_csi_end(_, _)
parse_csi_end(buf, start) ==
  IF start > Len(buf) THEN None
  ELSE IF buf[start] \in 64..126 THEN start
  ELSE parse_csi_end(buf, start + 1)

(* Variant of parse_osc_end: BEL does not end the sequence                 *)
RECURSIVE parse_osc_end_st_only(_, _)
parse_osc_end_st_only(buf, i) ==
  IF i > Len(buf) THEN None
  ELSE IF buf[i] = ESC /\ i + 1 <= Len(buf) /\ buf[i + 1] = 92 THEN i + 1
  ELSE parse_osc_end_st_only(buf, i + 1)

RECURSIVE parse_osc_end(_, _)
parse_osc_end(buf, i) ==
  IF i > Len(buf) THEN None
  ELSE IF buf[i] = BEL THEN i
  ELSE IF buf[i] = ESC /\ i + 1 <= Len(buf) /\ buf[i + 1] = 92 THEN i + 1
  ELSE parse_osc_end(buf, i + 1)

RECURSIVE parse_st_terminated(_, _)
parse_st_terminated(buf, i) ==
  IF i + 1 > Len(buf) THEN None
  ELSE IF buf[i] = ESC /\ buf[i + 1] = 92 THEN i + 1
  ELSE parse_st_terminated(buf, i + 1)

RECURSIVE parse_esc(_, _)
parse_esc(buf, i) ==
  IF i > Len(buf) THEN None
  ELSE IF buf[i] \in 32..47 THEN parse_esc(buf, i + 1)
  ELSE i

(* u16::saturating_add(1) *)
saturating_add1(x) == IF x >= U16Max THEN U16Max ELSE x + 1

(* format!("{}") of an unsigned integer: its decimal digits as bytes *)
RECURSIVE FormatDec(_)
FormatDec(n) ==
  IF n < 10 THEN <<48 + n>>
  ELSE Append(FormatDec(n \div 10), 48 + (n % 10))

(* Variant of cursor_position_response: the 0-based position is reported   *)
cursor_position_response_0based(cur) ==
  IF cur.st = "ok"
  THEN <<27, 91>> \o FormatDec(cur.row) \o <<59>> \o FormatDec(cur.col) \o <<82>>
  ELSE <<27, 91, 49, 59, 49, 82>>

cursor_position_response(cur) ==
  IF cur.st = "ok"
  THEN <<27, 91>> \o FormatDec(saturating_add1(cur.row)) \o <<59>>
         \o FormatDec(saturating_add1(cur.col)) \o <<82>>
  ELSE <<27, 91, 49, 59, 49, 82>>

(* Variants of csi_dispatch: a CSI that is no query is dropped; the device *)
(* attributes query gets the status answer.                                *)
csi_dispatch_drop(seq, cur) ==
  IF seq = QueryCursor THEN [resps |-> <<cursor_position_response(cur)>>, out |-> <<>>]
  ELSE IF seq = QueryStatus THEN [resps |-> <<StatusOk>>, out |-> <<>>]
  ELSE IF seq = QueryAttrs THEN [resps |-> <<AttrsVt100>>, out |-> <<>>]
  ELSE [resps |-> <<>>, out |-> <<>>]

csi_dispatch_swapped(seq, cur) ==
  IF seq = QueryCursor THEN [resps |-> <<cursor_position_response(cur)>>, out |-> <<>>]
  ELSE IF seq = QueryStatus THEN [resps |-> <<StatusOk>>, out |-> <<>>]
  ELSE IF seq = QueryAttrs THEN [resps |-> <<StatusOk>>, out |-> <<>>]
  ELSE [resps |-> <<>>, out |-> seq]

(* The CSI arm once the sequence is complete: the responses it sends and   *)
(* the bytes it copies to the output.                                      *)
csi_dispatch(seq, cur) ==
  IF seq = QueryCursor THEN [resps |-> <<cursor_position_response(cur)>>, out |-> <<>>]
  ELSE IF seq = QueryStatus THEN [resps |-> <<StatusOk>>, out |-> <<>>]
  ELSE IF seq = QueryAttrs THEN [resps |-> <<AttrsVt100>>, out |-> <<>>]
  ELSE [resps |-> <<>>, out |-> seq]

(* The match on pending[i + 1]: the index of the last byte of the sequence *)
(* that starts at i, or None.                                              *)
sequence_end(buf, i) ==
  IF buf[i + 1] = 91 THEN parse_csi_end(buf, i + 2)
  ELSE IF buf[i + 1] = 93 THEN parse_osc_end(buf, i + 2)
  ELSE IF buf[i + 1] \in {80, 88, 94, 95} THEN parse_st_terminated(buf, i + 2)
  ELSE parse_esc(buf, i + 1)

(* Variants of retain_tail: the tail is forgotten; the tail starts one     *)
(* byte early.                                                             *)
retain_tail_none(buf, i) == <<>>

retain_tail_early(buf, i) == SubSeq(buf, IF i > 1 THEN i - 1 ELSE i, Len(buf))

(* self.pending = self.pending[i..].to_vec() *)
retain_tail(buf, i) == SubSeq(buf, i, Len(buf))

(* The while loop of process: i is the scan position, o the output so far, *)
(* rs the responses so far.  The result carries the i the loop ended at.   *)
RECURSIVE scan(_, _, _, _, _)
scan(buf, i, o, rs, cur) ==
  IF i > Len(buf) THEN [i |-> i, out |-> o, resps |-> rs]
  ELSE IF buf[i] # ESC THEN scan(buf, i + 1, Append(o, buf[i]), rs, cur)
  ELSE IF i + 1 > Len(buf) THEN [i |-> i, out |-> o, resps |-> rs]
  ELSE LET end == sequence_end(buf, i) IN
    IF end = None THEN [i |-> i, out |-> o, resps |-> rs]
    ELSE IF buf[i + 1] = 91
      THEN LET d == csi_dispatch(SubSeq(buf, i, end), cur) IN
           scan(buf, end + 1, o \o d.out, rs \o d.resps, cur)
      ELSE scan(buf, end + 1, o \o SubSeq(buf, i, end), rs, cur)

(* process keeping the last byte it has handled in the pending buffer *)
process_keeps_last(pend, chunk, cur) ==
  LET buf == pend \o chunk
      r == scan(buf, 1, <<>>, <<>>, cur)
  IN [out |-> r.out, resps |-> r.resps,
      pending |-> SubSeq(buf, IF r.i > 1 THEN r.i - 1 ELSE r.i, Len(buf))]

(* VtResponder::process on a responder whose pending buffer is pend *)
process(pend, chunk, cur) ==
  LET buf == pend \o chunk
      r == scan(buf, 1, <<>>, <<>>, cur)
  IN [out |-> r.out, resps |-> r.resps, pending |-> retain_tail(buf, r.i)]

(* iter().position(|b| *b == 0x1b), None as 0 *)
RECURSIVE position_esc(_, _)
position_esc(buf, i) ==
  IF i > Len(buf) THEN None
  ELSE IF buf[i] = ESC THEN i
  ELSE position_esc(buf, i + 1)

(* Variant of finish: the whole pending buffer is flushed                  *)
finish_flush_all(pend) ==
  [tail |-> IF pend # <<>> THEN <<pend>> ELSE <<>>, pending |-> <<>>]

(* VtResponder::finish: the slices handed to on_tail, and the buffer after *)
finish(pend) ==
  LET pos == position_esc(pend, 1) IN
  [tail |-> IF pos # None
            THEN (IF pos > 1 THEN <<SubSeq(pend, 1, pos - 1)>> ELSE <<>>)
            ELSE (IF pend # <<>> THEN <<pend>> ELSE <<>>),
   pending |-> <<>>]

RECURSIVE Flatten(_)
Flatten(ss) == IF ss = <<>> THEN <<>> ELSE Head(ss) \o Flatten(Tail(ss))

----------------------------------------------------------------------------
(* pty/mod.rs and main.rs: the writers of the PTY *)

(* write_bytes: under the writer's mutex, write_all and flush.  The bytes  *)
(* enter the PTY in one piece; each carries its writer w and the number u  *)
(* of the key, command or response it is part of.                          *)
write_bytes(pty, bytes, w, u) ==
  pty \o [k \in 1..Len(bytes) |-> [b |-> bytes[k], w |-> w, u |-> u]]

(* char::encode_utf8 for code points below 0x10000 *)
encode_utf8(c) ==
  IF c < 128 THEN <<c>>
  ELSE IF c < 2048 THEN <<192 + (c \div 64), 128 + (c % 64)>>
  ELSE <<224 + (c \div 4096), 128 + ((c \div 64) % 64), 128 + (c % 64)>>

(* char::to_ascii_lowercase *)
to_ascii_lowercase(c) == IF c \in 65..90 THEN c + 32 ELSE c

(* The escape sequences of the function keys F1..F12 *)
function_key(n) ==
  IF n = 1 THEN <<27, 79, 80>>
  ELSE IF n = 2 THEN <<27, 79, 81>>
  ELSE IF n = 3 THEN <<27, 79, 82>>
  ELSE IF n = 4 THEN <<27, 79, 83>>
  ELSE IF n = 5 THEN <<27, 91, 49, 53, 126>>
  ELSE IF n = 6 THEN <<27, 91, 49, 55, 126>>
  ELSE IF n = 7 THEN <<27, 91, 49, 56, 126>>
  ELSE IF n = 8 THEN <<27, 91, 49, 57, 126>>
  ELSE IF n = 9 THEN <<27, 91, 50, 48, 126>>
  ELSE IF n = 10 THEN <<27, 91, 50, 49, 126>>
  ELSE IF n = 11 THEN <<27, 91, 50, 51, 126>>
  ELSE <<27, 91, 50, 52, 126>>

(* handle_key_event: the session.write calls it makes for a key, in order. *)
(* A key is [kind, code, ch, ctrl, alt]; ch is the character of a Char key *)
(* and the number of an F key.                                             *)
handle_key_event(key) ==
  IF key.code = "Char" THEN
    IF key.ctrl THEN << <<to_ascii_lowercase(key.ch) % 32>> >>
    ELSE IF key.alt THEN << <<27>>, encode_utf8(key.ch) >>
    ELSE << encode_utf8(key.ch) >>
  ELSE IF key.code = "Enter" THEN << <<13>> >>
  ELSE IF key.code = "Backspace" THEN << <<127>> >>
  ELSE IF key.code = "Tab" THEN << <<9>> >>
  ELSE IF key.code = "Esc" THEN << <<27>> >>
  ELSE IF key.code = "Up" THEN << <<27, 91, 65>> >>
  ELSE IF key.code = "Down" THEN << <<27, 91, 66>> >>
  ELSE IF key.code = "Right" THEN << <<27, 91, 67>> >>
  ELSE IF key.code = "Left" THEN << <<27, 91, 68>> >>
  ELSE IF key.code = "Home" THEN << <<27, 91, 72>> >>
  ELSE IF key.code = "End" THEN << <<27, 91, 70>> >>
  ELSE IF key.code = "PageUp" THEN << <<27, 91, 53, 126>> >>
  ELSE IF key.code = "PageDown" THEN << <<27, 91, 54, 126>> >>
  ELSE IF key.code = "Delete" THEN << <<27, 91, 51, 126>> >>
  ELSE IF key.code = "Insert" THEN << <<27, 91, 50, 126>> >>
  ELSE IF key.code = "F" /\ key.ch \in 1..12 THEN << function_key(key.ch) >>
  ELSE <<>>

(* The key that enters the chat overlay: Char('l') with CONTROL *)
is_chat_key(key) == key.code = "Char" /\ key.ch = 108 /\ key.ctrl

Key(kind, code, ch, ctrl, alt) ==
  [kind |-> kind, code |-> code, ch |-> ch, ctrl |-> ctrl, alt |-> alt]

(* The key events the user makes: x, x released, Ctrl+C, Alt+x, e-acute   *)
(* (two bytes in UTF-8), Up, F5, F13                                       *)
KeyMenu == { Key("Press", "Char", 120, FALSE, FALSE),
             Key("Release", "Char", 120, FALSE, FALSE),
             Key("Press", "Char", 67, TRUE, FALSE),
             Key("Press", "Char", 120, FALSE, TRUE),
             Key("Press", "Char", 233, FALSE, FALSE),
             Key("Press", "Up", 0, FALSE, FALSE),
             Key("Press", "F", 5, FALSE, FALSE),
             Key("Press", "F", 13, FALSE, FALSE) }

(* What chat_mode hands back: Ok(None), Ok(Some(cmd)) or an error.  The    *)
(* command here is "ls".                                                   *)
ChatResults == { [ok |-> TRUE, cmd |-> <<>>],
                 [ok |-> TRUE, cmd |-> <<108, 115>>],
                 [ok |-> FALSE, cmd |-> <<>>] }

(* What the child writes while keys are typed: a status query or a byte.   *)
QueryMenu == { QueryStatus, <<110>> }

----------------------------------------------------------------------------
(* i18n.rs: the message strings.  A string is the sequence of its          *)
(* characters' code points.                                                *)

(* The messages in English, by key *)
MessagesEn ==
  [
    (* "[LLM chat] Type your question. Ctrl+L accepts the command. Ctrl+C exits. Ctrl+R toggles reasoning." *)
    WelcomeMessage |->
      <<91, 76, 76, 77, 32, 99, 104, 97, 116, 93, 32, 84, 121, 112, 101, 32,
        121, 111, 117, 114, 32, 113, 117, 101, 115, 116, 105, 111, 110, 46, 32,
        67, 116, 114, 108, 43, 76, 32, 97, 99, 99, 101, 112, 116, 115, 32, 116,
        104, 101, 32, 99, 111, 109, 109, 97, 110, 100, 46, 32, 67, 116, 114,
        108, 43, 67, 32, 101, 120, 105, 116, 115, 46, 32, 67, 116, 114, 108,
        43, 82, 32, 116, 111, 103, 103, 108, 101, 115, 32, 114, 101, 97, 115,
        111, 110, 105, 110, 103, 46>>,
    (* "you> " *)
    PromptUser |->
      <<121, 111, 117, 62, 32>>,
    (* "assistant> " *)
    PromptAssistant |->
      <<97, 115, 115, 105, 115, 116, 97, 110, 116, 62, 32>>,
    (* "candidate: " *)
    PromptCandidate |->
      <<99, 97, 110, 100, 105, 100, 97, 116, 101, 58, 32>>,
    (* "[Thinking] " *)
    ThinkingProcess |->
      <<91, 84, 104, 105, 110, 107, 105, 110, 103, 93, 32>>,
    (* "(Ctrl+R to expand/collapse reasoning)" *)
    HintToggleReasoning |->
      <<40, 67, 116, 114, 108, 43, 82, 32, 116, 111, 32, 101, 120, 112, 97,
        110, 100, 47, 99, 111, 108, 108, 97, 112, 115, 101, 32, 114, 101, 97,
        115, 111, 110, 105, 110, 103, 41>>,
    (* "--- Reasoning ---" *)
    ReasoningStart |->
      <<45, 45, 45, 32, 82, 101, 97, 115, 111, 110, 105, 110, 103, 32, 45, 45,
        45>>,
    (* "--- End ---" *)
    ReasoningEnd |->
      <<45, 45, 45, 32, 69, 110, 100, 32, 45, 45, 45>>,
    (* "(truncated to fit terminal height)" *)
    ReasoningTruncated |->
      <<40, 116, 114, 117, 110, 99, 97, 116, 101, 100, 32, 116, 111, 32, 102,
        105, 116, 32, 116, 101, 114, 109, 105, 110, 97, 108, 32, 104, 101, 105,
        103, 104, 116, 41>> ]

(* The messages in Chinese, by key *)
MessagesZh ==
  [
    WelcomeMessage |->
      <<91, 76, 76, 77, 32, 99, 104, 97, 116, 93, 32, 36755, 20837, 24744,
        30340, 38382, 39064, 12290, 67, 116, 114, 108, 43, 76, 32, 25509,
        21463, 21629, 20196, 65292, 67, 116, 114, 108, 43, 67, 32, 36864,
        20986, 65292, 67, 116, 114, 108, 43, 82, 32, 23637, 24320, 47, 25240,
        21472, 24605, 32500, 38142, 12290>>,
    PromptUser |->
      <<20320, 62, 32>>,
    PromptAssistant |->
      <<21161, 25163, 62, 32>>,
    PromptCandidate |->
      <<20505, 36873, 21629, 20196, 58, 32>>,
    ThinkingProcess |->
      <<91, 24605, 32771, 20013, 93, 32>>,
    HintToggleReasoning |->
      <<40, 67, 116, 114, 108, 43, 82, 32, 23637, 24320, 47, 25240, 21472,
        24605, 32500, 38142, 41>>,
    ReasoningStart |->
      <<45, 45, 45, 32, 24605, 32500, 38142, 32, 45, 45, 45>>,
    ReasoningEnd |->
      <<45, 45, 45, 32, 32467, 26463, 32, 45, 45, 45>>,
    ReasoningTruncated |->
      <<65288, 20869, 23481, 36807, 38271, 65292, 24050, 25353, 32456, 31471,
        39640, 24230, 25130, 26029, 65289>> ]

(* t(lang, key) *)
t(lang, key) ==
  IF key \notin DOMAIN MessagesEn THEN <<>>
  ELSE IF lang = "En" THEN MessagesEn[key] ELSE MessagesZh[key]

----------------------------------------------------------------------------
(* chat.rs: geometry of the overlay.  An Option<String> is a record       *)
(* [some, v]: NoStr is None and Some(s) is Some(s).                        *)

NoStr == [some |-> FALSE, v |-> <<>>]
Some(s) == [some |-> TRUE, v |-> s]

Max(a, b) == IF a > b THEN a ELSE b

(* usize::saturating_sub *)
saturating_sub(a, b) == IF a > b THEN a - b ELSE 0

approx_char_width(c) ==
  IF c \in 0..31 \/ c = 127 THEN 0
  ELSE IF c < 128 THEN 1
  ELSE 2

(* The sum of the characters' widths: each character of width 1 or 2      *)
(* counts once, each of width 2 once more.                                 *)
approx_display_width(s) ==
  Cardinality({k \in 1..Len(s) : approx_char_width(s[k]) >= 1})
  + Cardinality({k \in 1..Len(s) : approx_char_width(s[k]) = 2})

(* wrap_rows without width.max(1) *)
wrap_rows_no_max(visible, cols) ==
  IF cols = 0 THEN 1
  ELSE (approx_display_width(visible) + cols - 1) \div cols

wrap_rows(visible, cols) ==
  IF cols = 0 THEN 1
  ELSE (Max(approx_display_width(visible), 1) + cols - 1) \div cols

(* The loop of truncate_tail_by_width: the characters from the last one    *)
(* backwards, idx the one looked at (0: none left), start the first one    *)
(* kept so far.                                                            *)
RECURSIVE truncate_start(_, _, _, _, _)
truncate_start(s, idx, width, start, max_width) ==
  IF idx = 0 THEN start
  ELSE IF width + approx_char_width(s[idx]) > max_width THEN start
  ELSE truncate_start(s, idx - 1, width + approx_char_width(s[idx]), idx, max_width)

truncate_tail_by_width(s, max_width) ==
  IF max_width = 0 THEN <<>>
  ELSE IF approx_display_width(s) <= max_width THEN s
  ELSE SubSeq(s, truncate_start(s, Len(s), 0, Len(s) + 1, max_width), Len(s))

(* char::is_whitespace *)
is_whitespace(c) ==
  c \in (9..13) \cup {32, 133, 160, 5760, 8232, 8233, 8239, 8287, 12288}
        \cup (8192..8202)

(* str::trim_end, str::trim_start and str::trim: the string without the   *)
(* whitespace after its last, before its first character that is not       *)
(* whitespace.                                                             *)
trim_end(s) ==
  LET keep == {k \in 1..Len(s) : ~is_whitespace(s[k])}
  IN IF keep = {} THEN <<>>
     ELSE SubSeq(s, 1, CHOOSE k \in keep : \A m \in keep : m <= k)

trim_start(s) ==
  LET keep == {k \in 1..Len(s) : ~is_whitespace(s[k])}
  IN IF keep = {} THEN <<>>
     ELSE SubSeq(s, CHOOSE k \in keep : \A m \in keep : k <= m, Len(s))

trim(s) == trim_start(trim_end(s))

normalize_to_single_line(s) ==
  trim([k \in 1..Len(s) |-> IF s[k] = 10 \/ s[k] = 13 THEN 32 ELSE s[k]])

(* str::lines: the pieces between line feeds, each without the carriage    *)
(* return that stands before its line feed; no piece after a line feed     *)
(* that ends the string.  The n-th line runs from after the (n-1)-th line  *)
(* feed to before the n-th (or to the end of the string).                  *)
lines(s) ==
  LET feeds == {k \in 1..Len(s) : s[k] = 10}
      count == Cardinality(feeds)
                + (IF s # <<>> /\ s[Len(s)] # 10 THEN 1 ELSE 0)
      feed(n) == IF n = 0 THEN 0
                 ELSE IF n > Cardinality(feeds) THEN Len(s) + 1
                 ELSE CHOOSE k \in feeds : Cardinality({m \in feeds : m <= k}) = n
      piece(n) == SubSeq(s, feed(n - 1) + 1, feed(n) - 1)
      strip(l) == IF l # <<>> /\ l[Len(l)] = 13 THEN SubSeq(l, 1, Len(l) - 1) ELSE l
  IN [n \in 1..count |-> IF n <= Cardinality(feeds) THEN strip(piece(n))
                         ELSE piece(n)]

RECURSIVE sum_wrap_rows(_, _)
sum_wrap_rows(ls, cols) ==
  IF ls = <<>> THEN 0
  ELSE wrap_rows(Head(ls), cols) + sum_wrap_rows(Tail(ls), cols)

(* cmd.as_deref().filter(|s| !s.is_empty()) after normalisation *)
shown_cmd(cmd) ==
  IF cmd.some /\ normalize_to_single_line(cmd.v) # <<>>
  THEN Some(normalize_to_single_line(cmd.v)) ELSE NoStr

(* calculate_reply_rows counting no candidate line *)
calculate_reply_rows_no_candidate(lang, reasoning, reasoning_expanded, answer, cmd, term_cols) ==
  LET assistant_rows ==
        wrap_rows(t(lang, "PromptAssistant") \o normalize_to_single_line(answer), term_cols)
      c == shown_cmd(cmd)
      candidate_rows ==
        IF c.some THEN wrap_rows(t(lang, "PromptCandidate") \o c.v, term_cols) ELSE 0
      reasoning_rows ==
        IF ~reasoning.some THEN 0
        ELSE IF reasoning_expanded
        THEN wrap_rows(t(lang, "ReasoningStart"), term_cols)
             + sum_wrap_rows(lines(reasoning.v), term_cols)
             + wrap_rows(t(lang, "ReasoningTruncated"), term_cols)
             + wrap_rows(t(lang, "ReasoningEnd"), term_cols)
        ELSE wrap_rows(t(lang, "HintToggleReasoning"), term_cols)
  IN reasoning_rows + assistant_rows

(* calculate_reply_rows (chat.rs 95-142) *)
calculate_reply_rows(lang, reasoning, reasoning_expanded, answer, cmd, term_cols) ==
  LET assistant_rows ==
        wrap_rows(t(lang, "PromptAssistant") \o normalize_to_single_line(answer), term_cols)
      c == shown_cmd(cmd)
      candidate_rows ==
        IF c.some THEN wrap_rows(t(lang, "PromptCandidate") \o c.v, term_cols) ELSE 0
      reasoning_rows ==
        IF ~reasoning.some THEN 0
        ELSE IF reasoning_expanded
        THEN wrap_rows(t(lang, "ReasoningStart"), term_cols)
             + sum_wrap_rows(lines(reasoning.v), term_cols)
             + wrap_rows(t(lang, "ReasoningTruncated"), term_cols)
             + wrap_rows(t(lang, "ReasoningEnd"), term_cols)
        ELSE wrap_rows(t(lang, "HintToggleReasoning"), term_cols)
  IN reasoning_rows + assistant_rows + candidate_rows

(* The loop over the reasoning lines, last line first (chat.rs 242-262):   *)
(* k is the line looked at (0: none left), sel the lines selected so far   *)
(* in printing order, used their rows.                                     *)
RECURSIVE select_lines(_, _, _, _, _, _)
select_lines(ls, k, sel, used, budget, cols) ==
  IF k = 0 THEN [sel |-> sel, used |-> used]
  ELSE IF used + wrap_rows(ls[k], cols) <= budget
  THEN select_lines(ls, k - 1, <<ls[k]>> \o sel, used + wrap_rows(ls[k], cols),
                    budget, cols)
  ELSE LET remaining_rows == saturating_sub(budget, used)
           truncated == truncate_tail_by_width(ls[k], remaining_rows * cols)
       IN IF remaining_rows = 0 \/ truncated = <<>>
          THEN [sel |-> sel, used |-> used]
          ELSE [sel |-> <<truncated>> \o sel, used |-> used + remaining_rows]

(* render_expanded printing no truncation notice *)
render_expanded_no_notice(lang, reasoning, term_cols, budget0) ==
  LET reasoning_lines == lines(reasoning)
      show_truncated == sum_wrap_rows(reasoning_lines, term_cols) > budget0
      truncated_rows == wrap_rows(t(lang, "ReasoningTruncated"), term_cols)
      budget == IF show_truncated
                THEN saturating_sub(budget0, truncated_rows) ELSE budget0
      s == IF budget > 0
           THEN select_lines(reasoning_lines, Len(reasoning_lines), <<>>, 0,
                             budget, term_cols)
           ELSE [sel |-> <<>>, used |-> 0]
  IN [rows |-> wrap_rows(t(lang, "ReasoningStart"), term_cols)
               + (IF show_truncated THEN truncated_rows ELSE 0)
               + s.used
               + wrap_rows(t(lang, "ReasoningEnd"), term_cols),
      lines |-> <<t(lang, "ReasoningStart")>>
                \o s.sel
                \o <<t(lang, "ReasoningEnd")>>]

(* The expanded reasoning block with room for it (chat.rs 213-272) *)
render_expanded(lang, reasoning, term_cols, budget0) ==
  LET reasoning_lines == lines(reasoning)
      show_truncated == sum_wrap_rows(reasoning_lines, term_cols) > budget0
      truncated_rows == wrap_rows(t(lang, "ReasoningTruncated"), term_cols)
      budget == IF show_truncated
                THEN saturating_sub(budget0, truncated_rows) ELSE budget0
      s == IF budget > 0
           THEN select_lines(reasoning_lines, Len(reasoning_lines), <<>>, 0,
                             budget, term_cols)
           ELSE [sel |-> <<>>, used |-> 0]
  IN [rows |-> wrap_rows(t(lang, "ReasoningStart"), term_cols)
               + (IF show_truncated THEN truncated_rows ELSE 0)
               + s.used
               + wrap_rows(t(lang, "ReasoningEnd"), term_cols),
      lines |-> <<t(lang, "ReasoningStart")>>
                \o (IF show_truncated THEN <<t(lang, "ReasoningTruncated")>> ELSE <<>>)
                \o s.sel
                \o <<t(lang, "ReasoningEnd")>>]

(* render_reply_block: rows is the count it returns, lines the lines it    *)
(* prints (their visible text), top to bottom.                             *)
render_reply_block(lang, reasoning, reasoning_expanded, answer, cmd, term_cols, max_rows) ==
  LET assistant_visible ==
        t(lang, "PromptAssistant") \o normalize_to_single_line(answer)
      assistant_rows == wrap_rows(assistant_visible, term_cols)
      c == shown_cmd(cmd)
      candidate_visible == t(lang, "PromptCandidate") \o c.v
      candidate_rows == IF c.some THEN wrap_rows(candidate_visible, term_cols) ELSE 0
      hint == [rows |-> wrap_rows(t(lang, "HintToggleReasoning"), term_cols),
               lines |-> <<t(lang, "HintToggleReasoning")>>]
      reserved == assistant_rows + candidate_rows
                  + wrap_rows(t(lang, "ReasoningStart"), term_cols)
                  + wrap_rows(t(lang, "ReasoningEnd"), term_cols)
      head == IF ~reasoning.some THEN [rows |-> 0, lines |-> <<>>]
              ELSE IF ~reasoning_expanded THEN hint
              ELSE IF reserved >= max_rows THEN hint
              ELSE render_expanded(lang, reasoning.v, term_cols, max_rows - reserved)
  IN [rows |-> head.rows + assistant_rows + candidate_rows,
      lines |-> head.lines \o <<assistant_visible>>
                \o (IF c.some THEN <<candidate_visible>> ELSE <<>>)]

----------------------------------------------------------------------------
(* chat.rs and main.rs: events, replies and the locals of chat_mode *)

NoSize == [cols |-> 0, rows |-> 0]

(* No render_reply_block call yet in this overlay *)
NoRender == [size |-> NoSize, base |-> [rows |-> 0, cols |-> 0]]

(* terminal::size().unwrap_or((80, 24)) *)
DefaultSize == [cols |-> 80, rows |-> 24]

(* crossterm's Event::Key, Event::Paste and Event::Resize *)
KeyEvt(key) == [type |-> "Key", key |-> key, text |-> <<>>, size |-> NoSize]
PasteEvt(text) ==
  [type |-> "Paste", key |-> Key("Press", "Null", 0, FALSE, FALSE),
   text |-> text, size |-> NoSize]
ResizeEvt(size) ==
  [type |-> "Resize", key |-> Key("Press", "Null", 0, FALSE, FALSE),
   text |-> <<>>, size |-> size]
NoEvt ==
  [type |-> "None", key |-> Key("Press", "Null", 0, FALSE, FALSE),
   text |-> <<>>, size |-> NoSize]

(* The result of llm.chat: Ok(ChatReply {text, suggested_command,          *)
(* reasoning}) or Err; NoOutcome stands for no call made.                  *)
Reply(text, cmd, reasoning) ==
  [called |-> TRUE, ok |-> TRUE, text |-> text, suggested_command |-> cmd,
   reasoning |-> reasoning]
Failure ==
  [called |-> TRUE, ok |-> FALSE, text |-> <<>>, suggested_command |-> NoStr,
   reasoning |-> NoStr]
NoOutcome ==
  [called |-> FALSE, ok |-> FALSE, text |-> <<>>, suggested_command |-> NoStr,
   reasoning |-> NoStr]

(* chat_mode's locals as they are declared (chat.rs 296-302) *)
InitialChat ==
  [history |-> <<>>, last_cmd |-> NoStr, last_answer |-> NoStr,
   last_reasoning |-> NoStr, reasoning_expanded |-> FALSE,
   last_reply_rows |-> 0, buf |-> <<>>]

(* str::as_bytes: the UTF-8 bytes of a string *)
RECURSIVE as_bytes(_)
as_bytes(str) ==
  IF str = <<>> THEN <<>> ELSE encode_utf8(Head(str)) \o as_bytes(Tail(str))

(* What a step of chat_mode's loop ends with: the loop goes on, or         *)
(* chat_mode returns Ok(Some(cmd)), Ok(None) or Err.                       *)
Continue == [kind |-> "continue", res |-> [ok |-> TRUE, cmd |-> <<>>]]
Return(res) == [kind |-> "return", res |-> res]

(* response.suggested_command.clone() without the filter *)
reply_cmd_unfiltered(response) == response.suggested_command

(* response.suggested_command.clone().filter(|cmd| !cmd.is_empty()) *)
reply_cmd(response) ==
  IF response.suggested_command.some /\ response.suggested_command.v # <<>>
  THEN response.suggested_command ELSE NoStr

(* on_reply pushing the answer before the line *)
on_reply_answer_first(c, line, response, size, lang) ==
  [history |-> c.history \o << [role |-> "Assistant", content |-> response.text],
                               [role |-> "User", content |-> line] >>,
   last_cmd |-> reply_cmd(response),
   last_answer |-> Some(response.text),
   last_reasoning |-> response.reasoning,
   reasoning_expanded |-> FALSE,
   last_reply_rows |->
     render_reply_block(lang, response.reasoning, FALSE, response.text,
                        reply_cmd(response), size.cols, size.rows).rows,
   buf |-> <<>>]

(* The Enter arm once llm.chat has returned Ok(response) (chat.rs 356-414) *)
on_reply(c, line, response, size, lang) ==
  [history |-> c.history \o << [role |-> "User", content |-> line],
                               [role |-> "Assistant", content |-> response.text] >>,
   last_cmd |-> reply_cmd(response),
   last_answer |-> Some(response.text),
   last_reasoning |-> response.reasoning,
   reasoning_expanded |-> FALSE,
   last_reply_rows |->
     render_reply_block(lang, response.reasoning, FALSE, response.text,
                        reply_cmd(response), size.cols, size.rows).rows,
   buf |-> <<>>]

(* The Ctrl+R arm rendering the block before it flips the flag *)
on_toggle_stale(c, size, lang) ==
  [c EXCEPT !.reasoning_expanded = ~c.reasoning_expanded,
            !.last_reply_rows =
               render_reply_block(lang, c.last_reasoning, c.reasoning_expanded,
                                  IF c.last_answer.some THEN c.last_answer.v ELSE <<>>,
                                  c.last_cmd, size.cols, size.rows).rows]

(* The Ctrl+R arm when there is something to toggle (chat.rs 419-459) *)
on_toggle(c, size, lang) ==
  [c EXCEPT !.reasoning_expanded = ~c.reasoning_expanded,
            !.last_reply_rows =
               render_reply_block(lang, c.last_reasoning, ~c.reasoning_expanded,
                                  IF c.last_answer.some THEN c.last_answer.v ELSE <<>>,
                                  c.last_cmd, size.cols, size.rows).rows]

(* The Ctrl+L arm returning the command as the candidate line shows it *)
on_accept_as_shown(c) ==
  IF c.last_cmd.some
  THEN Return([ok |-> TRUE, cmd |-> as_bytes(normalize_to_single_line(c.last_cmd.v))])
  ELSE Continue

(* The Ctrl+L arm: return the last command if there is one *)
on_accept(c) ==
  IF c.last_cmd.some
  THEN Return([ok |-> TRUE, cmd |-> as_bytes(c.last_cmd.v)])
  ELSE Continue

(* The Ctrl+C arm returning what the Ctrl+L arm returns *)
on_cancel_returns_last(c) ==
  Return([ok |-> TRUE, cmd |-> IF c.last_cmd.some THEN as_bytes(c.last_cmd.v) ELSE <<>>])

(* The Ctrl+C arm: return no command *)
on_cancel(c) == Return([ok |-> TRUE, cmd |-> <<>>])

(* pasted.replace(['\r', '\n'], " ") *)
replace_breaks(str) ==
  [k \in 1..Len(str) |-> IF str[k] = 10 \/ str[k] = 13 THEN 32 ELSE str[k]]

(* buf taken whole as the line *)
submitted_line_untrimmed(c) == c.buf

(* let line = buf.trim_end().to_string() (chat.rs 318) *)
submitted_line(c) == trim_end(c.buf)

(* The Ctrl+R arm's test without last_reasoning.is_some() *)
can_toggle_without_reasoning(c) == c.last_reply_rows > 0

(* last_reasoning.is_some() && last_reply_rows > 0 (chat.rs 418) *)
can_toggle(c) == c.last_reasoning.some /\ c.last_reply_rows > 0

(* TRUE iff chat_mode calls llm.chat for this event: Enter pressed on a    *)
(* line that is not empty once its trailing whitespace is cut.             *)
calls_llm(c, evt) ==
  /\ evt.type = "Key"
  /\ evt.key.kind \in {"Press", "Repeat"}
  /\ evt.key.code = "Enter"
  /\ submitted_line(c) # <<>>

(* One turn of chat_mode's loop (chat.rs 306-490) on event evt, out being  *)
(* what llm.chat returns if it is called and size what terminal::size      *)
(* returns: the locals afterwards, how the turn ends, and whether          *)
(* render_reply_block ran.                                                 *)
chat_step(c, evt, out, size, lang) ==
  LET stay(c2) == [chat |-> c2, ret |-> Continue, rendered |-> FALSE]
      key == evt.key
  IN IF evt.type = "Paste"
     THEN stay([c EXCEPT !.buf = c.buf \o replace_breaks(evt.text)])
     ELSE IF evt.type # "Key" THEN stay(c)
     ELSE IF key.kind \notin {"Press", "Repeat"} THEN stay(c)
     ELSE IF key.code = "Enter"
     THEN IF submitted_line(c) = <<>> THEN stay([c EXCEPT !.buf = <<>>])
          ELSE IF ~out.ok
          THEN [chat |-> c, ret |-> Return([ok |-> FALSE, cmd |-> <<>>]),
                rendered |-> FALSE]
          ELSE [chat |-> on_reply(c, submitted_line(c), out, size, lang),
                ret |-> Continue, rendered |-> TRUE]
     ELSE IF key.code = "Char" /\ key.ch = 114 /\ key.ctrl
     THEN IF can_toggle(c)
          THEN [chat |-> on_toggle(c, size, lang), ret |-> Continue,
                rendered |-> TRUE]
          ELSE stay(c)
     ELSE IF key.code = "Char" /\ key.ch = 108 /\ key.ctrl
     THEN [chat |-> c, ret |-> on_accept(c), rendered |-> FALSE]
     ELSE IF key.code = "Char" /\ key.ch = 99 /\ key.ctrl
     THEN [chat |-> c, ret |-> on_cancel(c), rendered |-> FALSE]
     ELSE IF key.code = "Backspace"
     THEN stay([c EXCEPT !.buf = IF c.buf = <<>> THEN <<>>
                                 ELSE SubSeq(c.buf, 1, Len(c.buf) - 1)])
     ELSE IF key.code = "Char" THEN stay([c EXCEPT !.buf = Append(c.buf, key.ch)])
     ELSE stay(c)

(* reasoning_callback (chat.rs 334-352) on one fragment, term_width being  *)
(* what get_terminal_width returns: the accumulator afterwards and the     *)
(* visible text of the preview line it redraws.                            *)
reasoning_callback(clean_reasoning_buffer, reasoning, term_width, lang) ==
  LET thinking_text == t(lang, "ThinkingProcess")
      buffer == clean_reasoning_buffer \o replace_breaks(reasoning)
      max_display_width ==
        saturating_sub(saturating_sub(term_width, approx_display_width(thinking_text)), 1)
  IN [buffer |-> buffer,
      line |-> thinking_text \o truncate_tail_by_width(buffer, max_display_width)]

(* Nothing of the overlay on the terminal *)
NoScreen == [below |-> 0, printed |-> <<>>]

(* prompt (chat.rs 76-84): the visible text of the prompt line *)
prompt(buf, lang, term_cols) ==
  LET prompt_text == t(lang, "PromptUser")
      max_buf_width ==
        saturating_sub(saturating_sub(term_cols, approx_display_width(prompt_text)), 1)
  IN prompt_text \o truncate_tail_by_width(buf, max_buf_width)

(* The same turn of chat_mode's loop seen on the terminal.  A "\r\n" takes  *)
(* the cursor one row down; prompt redraws the row the cursor is on and,   *)
(* should its text be wider than the terminal, runs on into the rows       *)
(* below; a render starts a block on the row the cursor is on (after Enter *)
(* the row below the line entered, at a toggle last_reply_rows rows above  *)
(* the prompt line) and leaves the cursor on the row after the block.  st *)
(* is what chat_step gives for the turn.                                   *)
screen_step(scr, c, st, evt, out, size, lang) ==
  LET key == evt.key
      run_on == wrap_rows(prompt(st.chat.buf, lang, size.cols), size.cols) - 1
      redraw == [below |-> IF scr.below = 0 THEN 0 ELSE scr.below + run_on,
                 printed |-> <<"prompt">>]
      block(b) ==
        LET r == render_reply_block(lang, st.chat.last_reasoning,
                                    st.chat.reasoning_expanded,
                                    IF st.chat.last_answer.some
                                    THEN st.chat.last_answer.v ELSE <<>>,
                                    st.chat.last_cmd, size.cols, size.rows)
        IN [below |-> sum_wrap_rows(r.lines, size.cols) + run_on,
            printed |-> b \o <<"block", "prompt">>]
      none == [scr EXCEPT !.printed = <<>>]
  IN IF evt.type = "Paste" THEN redraw
     ELSE IF evt.type # "Key" THEN none
     ELSE IF key.kind \notin {"Press", "Repeat"} THEN none
     ELSE IF key.code = "Enter"
     THEN IF submitted_line(c) = <<>>
          THEN [below |-> IF scr.below = 0 THEN 0 ELSE scr.below + 1 + run_on,
                printed |-> <<"newline", "prompt">>]
          ELSE IF ~out.ok
          THEN [below |-> IF scr.below = 0 THEN 0 ELSE scr.below + 1,
                printed |-> <<"newline">>]
          ELSE block(<<"newline", "clear">>)
     ELSE IF key.code = "Char" /\ key.ch = 114 /\ key.ctrl
     THEN IF can_toggle(c) THEN block(<<"up", "clear">>) ELSE none
     ELSE IF key.code = "Char" /\ key.ch \in {108, 99} /\ key.ctrl THEN none
     ELSE IF key.code = "Backspace"
     THEN IF c.buf = <<>> THEN none ELSE redraw
     ELSE IF key.code = "Char" THEN redraw
     ELSE none

(* The sizes the real terminal takes *)
TermSizes == { [cols |-> 20, rows |-> 3], DefaultSize }

Langs == {"En", "Zh"}

(* "lists files", "ls -la", "check dir", "ok", "no" and two lines "a", "b" *)
TextListsFiles == <<108, 105, 115, 116, 115, 32, 102, 105, 108, 101, 115>>
TextLsLa == <<108, 115, 32, 45, 108, 97>>
TextCheckDir == <<99, 104, 101, 99, 107, 32, 100, 105, 114>>
TextOk == <<111, 107>>
TextNo == <<110, 111>>
TextTwoLines == <<97, 10, 98>>

(* A line break, CR LF *)
TextBreak == <<13, 10>>

(* What llm.chat returns: a reply with command and reasoning, a reply with *)
(* neither, a reply with an empty command, a reply whose command is        *)
(* " ls" and a line feed, or an error.                                     *)
LlmOutcomes ==
  { Reply(TextListsFiles, Some(TextLsLa), Some(TextCheckDir)),
    Reply(TextOk, NoStr, NoStr),
    Reply(TextNo, Some(<<>>), Some(TextTwoLines)),
    Reply(TextOk, Some(<<32, 108, 115, 10>>), NoStr),
    Failure }

(* The events chat_mode reads: l, Backspace, Enter, Ctrl+R, Ctrl+L, *)
(* Ctrl+C, a released key, pasted text and resizes.                        *)
ChatEventMenu ==
  { KeyEvt(Key("Press", "Char", 108, FALSE, FALSE)),
    KeyEvt(Key("Press", "Backspace", 0, FALSE, FALSE)),
    KeyEvt(Key("Press", "Enter", 0, FALSE, FALSE)),
    KeyEvt(Key("Press", "Char", 114, TRUE, FALSE)),
    KeyEvt(Key("Press", "Char", 108, TRUE, FALSE)),
    KeyEvt(Key("Press", "Char", 99, TRUE, FALSE)),
    KeyEvt(Key("Release", "Char", 108, TRUE, FALSE)),
    PasteEvt(TextBreak) }
  \cup { ResizeEvt(size) : size \in TermSizes }

(* No function of chat.rs called on its own, and no result yet *)
NoArgs == [fn |-> "none"]
NoResult == [done |-> FALSE, rows |-> 0, lines |-> <<>>]

(* Sixty times "x"; ten lines "r"; a line of three wide characters; a line *)
(* of nineteen                                                             *)
TextSixty == [k \in 1..60 |-> 120]
TextWideLong == [k \in 1..19 |-> 23485]
TextTenLines == [k \in 1..19 |-> IF k % 2 = 1 THEN 114 ELSE 10]
TextWide == <<24605, 32500, 38142>>

(* The replies and sizes render_reply_block is called with on its own *)
RenderCalls ==
  { [fn |-> "render_reply_block", lang |-> lang, reasoning |-> reasoning,
     reasoning_expanded |-> expanded, answer |-> answer, cmd |-> cmd,
     term_cols |-> size.cols, max_rows |-> size.rows] :
      lang \in Langs,
      reasoning \in { NoStr, Some(TextCheckDir), Some(TextTwoLines), Some(TextTenLines),
                      Some(TextWide \o <<10>> \o TextSixty), Some(TextWideLong) },
      expanded \in BOOLEAN,
      answer \in { TextOk, TextListsFiles, TextSixty, TextTwoLines },
      cmd \in { NoStr, Some(TextLsLa), Some(<<10>>) },
      size \in { [cols |-> 1, rows |-> 78], [cols |-> 7, rows |-> 12],
                 [cols |-> 20, rows |-> 3], [cols |-> 40, rows |-> 8], DefaultSize } }

----------------------------------------------------------------------------
(* The child shell and the relay thread (pty/mod.rs) *)

(* The state once main has made the session, started the relay thread and *)
(* entered raw mode, but for the language.                                 *)
InitBase ==
  /\ ptyOut = <<>>
  /\ writes = 0
  /\ cursor = Unread
  /\ input = <<>>
  /\ pending = <<>>
  /\ stdout = <<>>
  /\ resps = <<>>
  /\ respQ = <<>>
  /\ filtered = <<>>
  /\ relayPc = "read"
  /\ childUp = TRUE
  /\ ptyIn = <<>>
  /\ mainPc = "poll"
  /\ mainQ = <<>>
  /\ keys = 0
  /\ chat = InitialChat
  /\ chatEvts = 0
  /\ lastEvt = NoEvt
  /\ llmLast = NoOutcome
  /\ lastRender = NoRender
  /\ screen = NoScreen
  /\ termSize = DefaultSize
  /\ ptySize = DefaultSize
  /\ rawMode = TRUE
  /\ pasteMode = FALSE
  /\ result = NoResult

Init ==
  /\ InitBase
  /\ ui_lang = "En"
  /\ args = NoArgs

(* The child writes f to its terminal. *)
ChildWrite(f) ==
  /\ childUp
  /\ relayPc # "done"
  /\ writes < MaxWrites
  /\ writes' = writes + 1
  /\ ptyOut' = ptyOut \o f
  /\ UNCHANGED <<cursor, input, pending, stdout, resps, respQ, filtered, relayPc>>
  /\ UNCHANGED <<childUp, ptyIn, mainVars, fgVars>>

(* The child shell exits. *)
ChildExit ==
  /\ childUp
  /\ childUp' = FALSE
  /\ UNCHANGED <<relayVars, ptyIn, mainVars, fgVars>>

(* TRUE iff process reaches cursor_position_response on this chunk, that   *)
(* is, iff crossterm::cursor::position is called.                          *)
asks_cursor(pend, chunk) ==
  LET r == process(pend, chunk, Unread)
  IN \E k \in 1..Len(r.resps) : r.resps[k] = cursor_position_response(Unread)

(* reader.read returns Ok(n), n > 0, and the chunk goes through process.   *)
(* Responses are written by the callback one write_bytes call each; with   *)
(* no response the filtered bytes go to stdout at once.                    *)
RelayRead(n) ==
  /\ relayPc = "read"
  /\ n \in 1..Min(Len(ptyOut), BufSize)
  /\ \E cur \in IF asks_cursor(pending, SubSeq(ptyOut, 1, n))
                 THEN CursorAnswers ELSE {cursor} :
     LET chunk == SubSeq(ptyOut, 1, n)
         r == process(pending, chunk, cur)
     IN /\ cursor' = cur
        /\ ptyOut' = SubSeq(ptyOut, n + 1, Len(ptyOut))
        /\ input' = input \o chunk
        /\ pending' = r.pending
        /\ IF r.resps = <<>>
           THEN /\ stdout' = stdout \o r.out
                /\ UNCHANGED <<respQ, filtered, relayPc>>
           ELSE /\ respQ' = r.resps
                /\ filtered' = r.out
                /\ relayPc' = "respond"
                /\ UNCHANGED stdout
  /\ UNCHANGED <<writes, resps, childUp, ptyIn, mainVars, fgVars>>

(* One on_response call: write_bytes sends the response into the PTY.      *)
(* After the last one process returns and the relay writes the filtered    *)
(* bytes to stdout.                                                        *)
RelayRespond ==
  /\ relayPc = "respond"
  /\ resps' = Append(resps, Head(respQ))
  /\ ptyIn' = write_bytes(ptyIn, Head(respQ), "resp", Len(resps) + 1)
  /\ respQ' = Tail(respQ)
  /\ IF Len(respQ) = 1
     THEN /\ stdout' = stdout \o filtered
          /\ filtered' = <<>>
          /\ relayPc' = "read"
     ELSE UNCHANGED <<stdout, filtered, relayPc>>
  /\ UNCHANGED <<ptyOut, writes, cursor, input, pending, childUp, mainVars, fgVars>>

(* The end of the relay thread: the loop is left and responder.finish runs *)
(* with a sink that writes to stdout.                                      *)
RelayEnd ==
  /\ LET f == finish(pending) IN
       /\ stdout' = stdout \o Flatten(f.tail)
       /\ pending' = f.pending
  /\ relayPc' = "done"

(* reader.read returns Ok(0): the child closed its output. *)
RelayEof ==
  /\ relayPc = "read"
  /\ ptyOut = <<>>
  /\ RelayEnd
  /\ UNCHANGED <<ptyOut, writes, cursor, input, resps, respQ, filtered>>
  /\ UNCHANGED <<childUp, ptyIn, mainVars, fgVars>>

(* reader.read returns Err: the bytes not read yet are lost. *)
RelayErr ==
  /\ relayPc = "read"
  /\ ptyOut # <<>>
  /\ ptyOut' = <<>>
  /\ RelayEnd
  /\ UNCHANGED <<writes, cursor, input, resps, respQ, filtered>>
  /\ UNCHANGED <<childUp, ptyIn, mainVars, fgVars>>

Next ==
  \/ \E f \in Menu : ChildWrite(f)
  \/ \E n \in 1..Min(Len(ptyOut), BufSize) : RelayRead(n)
  \/ RelayRespond
  \/ RelayEof
  \/ RelayErr

----------------------------------------------------------------------------
(* The main thread (main.rs, run_event_loop) *)

(* The next session.write call of the event being handled: entry [w, u,    *)
(* bytes] of mainQ.                                                        *)
MainWrite ==
  /\ mainPc = "write"
  /\ ptyIn' = write_bytes(ptyIn, Head(mainQ).bytes, Head(mainQ).w, Head(mainQ).u)
  /\ mainQ' = Tail(mainQ)
  /\ mainPc' = IF Len(mainQ) = 1 THEN "poll" ELSE "write"
  /\ UNCHANGED <<relayVars, childUp, keys, fgVars>>

(* event::read gives a key that is not Ctrl+L: released keys are skipped,  *)
(* the others go to handle_key_event, whose first write happens here.      *)
MainKey(key) ==
  /\ mainPc = "poll"
  /\ childUp
  /\ keys < MaxKeys
  /\ ~is_chat_key(key)
  /\ keys' = keys + 1
  /\ LET ws == IF key.kind = "Release" THEN <<>> ELSE handle_key_event(key)
         q == [k \in 1..Len(ws) |-> [w |-> "key", u |-> keys + 1, bytes |-> ws[k]]]
     IN IF q = <<>>
        THEN UNCHANGED <<ptyIn, mainQ, mainPc>>
        ELSE /\ ptyIn' = write_bytes(ptyIn, q[1].bytes, q[1].w, q[1].u)
             /\ mainQ' = Tail(q)
             /\ mainPc' = IF Len(q) = 1 THEN "poll" ELSE "write"
  /\ lastEvt' = KeyEvt(key)
  /\ UNCHANGED <<relayVars, childUp, chat, chatEvts, llmLast, lastRender, screen,
                 termSize, ptySize, rawMode, pasteMode, ui_lang, fnVars>>

(* event::read gives Ctrl+L: chat_mode takes over, prints its welcome    *)
(* line, enables bracketed paste and starts with fresh locals.             *)
MainEnterChat ==
  /\ mainPc = "poll"
  /\ childUp
  /\ keys < MaxKeys
  /\ keys' = keys + 1
  /\ mainPc' = "chat"
  /\ lastEvt' = KeyEvt(Key("Press", "Char", 108, TRUE, FALSE))
  /\ chat' = InitialChat
  /\ llmLast' = NoOutcome
  /\ lastRender' = NoRender
  /\ screen' = [below |-> 0, printed |-> <<"welcome", "prompt">>]
  /\ pasteMode' = TRUE
  /\ UNCHANGED <<relayVars, childUp, ptyIn, mainQ, chatEvts, termSize, ptySize,
                 rawMode, ui_lang, fnVars>>

(* The writes with a carriage return after the command as well *)
chat_return_writes_cr_twice(res, u) ==
  << [w |-> "cr", u |-> u, bytes |-> <<13>>] >>
  \o (IF res.cmd = <<>> THEN <<>>
      ELSE << [w |-> "cmd", u |-> u, bytes |-> res.cmd] >>)
  \o << [w |-> "cr", u |-> u, bytes |-> <<13>>] >>

(* The writes in the other order: the command, then the carriage return *)
chat_return_writes_cmd_first(res, u) ==
  (IF res.cmd = <<>> THEN <<>>
   ELSE << [w |-> "cmd", u |-> u, bytes |-> res.cmd] >>)
  \o << [w |-> "cr", u |-> u, bytes |-> <<13>>] >>

(* The writes run_event_loop makes when chat_mode has returned Ok: the     *)
(* first is made at once, the others are left in the queue.                *)
chat_return_writes(res, u) ==
  << [w |-> "cr", u |-> u, bytes |-> <<13>>] >>
  \o (IF res.cmd = <<>> THEN <<>>
      ELSE << [w |-> "cmd", u |-> u, bytes |-> res.cmd] >>)

(* chat_mode returns res: its locals and the paste guard are dropped.  An  *)
(* error leaves run_event_loop through the ? operator, and main disables   *)
(* raw mode; otherwise a carriage return is written and then the accepted  *)
(* command, if there is one.                                               *)
MainLeaveChat(res) ==
  /\ mainPc = "chat"
  /\ chat' = InitialChat
  /\ pasteMode' = FALSE
  /\ IF ~res.ok
     THEN /\ mainPc' = "failed"
          /\ rawMode' = FALSE
          /\ UNCHANGED <<ptyIn, mainQ>>
     ELSE LET q == chat_return_writes(res, keys)
          IN /\ ptyIn' = write_bytes(ptyIn, q[1].bytes, q[1].w, q[1].u)
             /\ mainQ' = Tail(q)
             /\ mainPc' = IF Len(q) = 1 THEN "poll" ELSE "write"
             /\ UNCHANGED rawMode
  /\ UNCHANGED <<relayVars, childUp, keys, ptySize, ui_lang, fnVars>>

(* chat_mode returns res, seen from outside the overlay. *)
ChatReturns(res) ==
  /\ MainLeaveChat(res)
  /\ UNCHANGED <<chatEvts, lastEvt, llmLast, lastRender, screen, termSize>>

(* session.child_exited() is true at the top of the loop: break, and main  *)
(* disables raw mode and returns Ok.                                       *)
MainExit ==
  /\ mainPc = "poll"
  /\ ~childUp
  /\ mainPc' = "done"
  /\ rawMode' = FALSE
  /\ UNCHANGED <<relayVars, childUp, ptyIn, mainQ, keys, chat, chatEvts, lastEvt,
                 llmLast, lastRender, screen, termSize, ptySize, pasteMode, ui_lang,
                 fnVars>>

(* event::read gives Event::Resize: session.resize. *)
MainResize(size) ==
  /\ mainPc = "poll"
  /\ childUp
  /\ keys < MaxKeys
  /\ keys' = keys + 1
  /\ lastEvt' = ResizeEvt(size)
  /\ termSize' = size
  /\ ptySize' = size
  /\ UNCHANGED <<relayVars, childUp, ptyIn, mainPc, mainQ, chat, chatEvts, llmLast,
                 lastRender, screen, rawMode, pasteMode, ui_lang, fnVars>>

(* event::read gives Event::Paste: the text is written in one call. *)
MainPaste(text) ==
  /\ mainPc = "poll"
  /\ childUp
  /\ keys < MaxKeys
  /\ keys' = keys + 1
  /\ lastEvt' = PasteEvt(text)
  /\ ptyIn' = write_bytes(ptyIn, as_bytes(text), "paste", keys + 1)
  /\ UNCHANGED <<relayVars, childUp, mainPc, mainQ, chat, chatEvts, llmLast,
                 lastRender, screen, termSize, ptySize, rawMode, pasteMode, ui_lang,
                 fnVars>>

(* chat_mode reads event evt and handles it; out is what llm.chat returns  *)
(* if the event makes it call the LLM.                                     *)
ChatEvent(evt, out) ==
  /\ mainPc = "chat"
  /\ chatEvts < MaxChatEvents
  /\ out.called = calls_llm(chat, evt)
  /\ chatEvts' = chatEvts + 1
  /\ lastEvt' = evt
  /\ termSize' = IF evt.type = "Resize" THEN evt.size ELSE termSize
  /\ LET st == chat_step(chat, evt, out, termSize', ui_lang)
     IN /\ llmLast' = IF out.called THEN out ELSE llmLast
        /\ lastRender' =
             IF ~st.rendered THEN lastRender
             ELSE [size |-> termSize',
                   base |-> IF ~chat.reasoning_expanded /\ st.chat.reasoning_expanded
                            THEN [rows |-> chat.last_reply_rows,
                                  cols |-> lastRender.size.cols]
                            ELSE lastRender.base]
        /\ screen' = screen_step(screen, chat, st, evt, out, termSize', ui_lang)
        /\ IF st.ret.kind = "continue"
           THEN /\ chat' = st.chat
                /\ UNCHANGED <<relayVars, childUp, ptyIn, mainPc, mainQ, keys,
                               ptySize, rawMode, pasteMode, ui_lang, fnVars>>
           ELSE MainLeaveChat(st.ret.res)

(* A print! of chat_mode panics because writing to stdout fails.  When the *)
(* build unwinds, the locals and the paste guard are dropped on the way    *)
(* out; when it aborts, nothing more runs.  Raw mode is left as it is in   *)
(* both.                                                                   *)
ChatPanic(strategy) ==
  /\ mainPc = "chat"
  /\ mainPc' = "panicked"
  /\ pasteMode' = (strategy = "abort")
  /\ chat' = InitialChat
  /\ llmLast' = NoOutcome
  /\ lastRender' = NoRender
  /\ screen' = NoScreen
  /\ UNCHANGED <<relayVars, childUp, ptyIn, mainQ, keys, chatEvts, lastEvt,
                 termSize, ptySize, rawMode, ui_lang, fnVars>>

(* The two threads and the child together. *)
NextWriters ==
  \/ \E f \in QueryMenu : ChildWrite(f)
  \/ ChildExit
  \/ \E n \in 1..Min(Len(ptyOut), BufSize) : RelayRead(n)
  \/ RelayRespond
  \/ RelayEof
  \/ RelayErr
  \/ \E key \in KeyMenu : MainKey(key)
  \/ MainEnterChat
  \/ \E res \in ChatResults : ChatReturns(res)
  \/ MainWrite
  \/ MainExit

SpecWriters == Init /\ [][NextWriters]_vars

(* The same with the progress the two threads make by themselves: the main *)
(* loop comes round to its exit test at least every 100 ms and finishes    *)
(* the writes it has begun; the relay reads what there is to read, writes  *)
(* its responses, and once the child has exited its read returns 0.  What  *)
(* the user and the child do is not forced.                                *)
SpecWritersFair ==
  /\ SpecWriters
  /\ WF_vars(MainExit)
  /\ WF_vars(MainWrite)
  /\ WF_vars(\E n \in 1..Min(Len(ptyOut), BufSize) : RelayRead(n))
  /\ WF_vars(RelayRespond)
  /\ WF_vars(~childUp /\ RelayEof)

(* The foreground thread alone: the main loop and the chat overlay. *)
NextOverlay ==
  \/ MainEnterChat
  \/ \E evt \in ChatEventMenu : \E out \in LlmOutcomes \cup {NoOutcome} :
        ChatEvent(evt, out)
  \/ \E strategy \in {"unwind", "abort"} : ChatPanic(strategy)
  \/ MainWrite
  \/ \E size \in TermSizes : MainResize(size)
  \/ MainPaste(TextTwoLines)

SpecOverlay == Init /\ [][NextOverlay]_vars

----------------------------------------------------------------------------
(* render_reply_block called on its own (chat.rs 172-289) *)

(* Any reply, expanded or collapsed, in either language, on any terminal;  *)
(* max_rows is the terminal's height as in chat_mode.                      *)
InitRender ==
  /\ InitBase
  /\ ui_lang = "En"
  /\ args \in RenderCalls

Render ==
  /\ args.fn = "render_reply_block"
  /\ ~result.done
  /\ LET r == render_reply_block(args.lang, args.reasoning, args.reasoning_expanded,
                                 args.answer, args.cmd, args.term_cols, args.max_rows)
         needed_rows == calculate_reply_rows(args.lang, args.reasoning,
                                             args.reasoning_expanded, args.answer,
                                             args.cmd, args.term_cols)
     IN result' = [done |-> TRUE, rows |-> r.rows, lines |-> r.lines,
                   needed_rows |-> needed_rows]
  /\ UNCHANGED <<relayVars, childUp, ptyIn, mainVars, chat, chatEvts, lastEvt,
                 llmLast, lastRender, screen, termSize, ptySize, rawMode, pasteMode,
                 ui_lang, args>>

NextRender == Render

SpecRender == InitRender /\ [][NextRender]_vars

----------------------------------------------------------------------------
(* llm/openai.rs: from the accumulated content to the ChatReply *)

(* "```json" and "```" *)
FenceJson == <<96, 96, 96, 106, 115, 111, 110>>
Fence == <<96, 96, 96>>

(* str::find: the place of the first occurrence of pat in s, None if there *)
(* is none (places count from 1)                                           *)
find(s, pat) ==
  LET hits == {i \in 1..(Len(s) - Len(pat) + 1) : SubSeq(s, i, i + Len(pat) - 1) = pat}
  IN IF hits = {} THEN None ELSE CHOOSE i \in hits : \A j \in hits : i <= j

(* The text of trimmed between an opening fence of length n at start and   *)
(* the next "```" after it, trimmed; NoStr if there is no such "```"       *)
(* (openai.rs 85-88 and 91-94)                                             *)
fenced(trimmed, start, n) ==
  LET rest == SubSeq(trimmed, start + n, Len(trimmed))
      end == find(rest, Fence)
  IN IF end = None THEN NoStr ELSE Some(trim(SubSeq(rest, 1, end - 1)))

(* extract_json taking the "```json" fence for a "```" fence *)
extract_json_skip3(content) ==
  LET trimmed == trim(content)
      a == find(trimmed, FenceJson)
      b == find(trimmed, Fence)
  IN IF a # None /\ fenced(trimmed, a, 3).some THEN fenced(trimmed, a, 3).v
     ELSE IF b # None /\ fenced(trimmed, b, 3).some THEN fenced(trimmed, b, 3).v
     ELSE trimmed

extract_json(content) ==
  LET trimmed == trim(content)
      a == find(trimmed, FenceJson)
      b == find(trimmed, Fence)
  IN IF a # None /\ fenced(trimmed, a, 7).some THEN fenced(trimmed, a, 7).v
     ELSE IF b # None /\ fenced(trimmed, b, 3).some THEN fenced(trimmed, b, 3).v
     ELSE trimmed

(* serde_json::from_str::<JsonPayload>, on the texts the replies below are *)
(* made of: a JSON object whose values are strings without escapes or      *)
(* null. Arrays, numbers, booleans, nested values and escapes are not in   *)
(* those texts.                                                            *)
(* The fields of JsonPayload and their names in the JSON text *)
JsonFields ==
  [command |-> <<99, 111, 109, 109, 97, 110, 100>>,
   answer |-> <<97, 110, 115, 119, 101, 114>>,
   note |-> <<110, 111, 116, 101>>,
   explanation |-> <<101, 120, 112, 108, 97, 110, 97, 116, 105, 111, 110>>,
   message |-> <<109, 101, 115, 115, 97, 103, 101>>]

(* JsonPayload with every field None *)
NoPayload == [f \in DOMAIN JsonFields |-> NoStr]

JsonErr == [ok |-> FALSE, v |-> NoStr, next |-> 0, json |-> NoPayload]

(* The first place from i on that holds no JSON whitespace *)
skip_ws(s, i) ==
  LET stops == {k \in i..Len(s) : s[k] \notin {32, 10, 13, 9}}
  IN IF stops = {} THEN Len(s) + 1 ELSE CHOOSE k \in stops : \A j \in stops : k <= j

(* A JSON string at place i: its text and the place after its closing quote *)
parse_str(s, i) ==
  IF i > Len(s) \/ s[i] # 34 THEN JsonErr
  ELSE LET ends == {k \in (i + 1)..Len(s) : s[k] = 34}
       IN IF ends = {} THEN JsonErr
          ELSE LET end == CHOOSE k \in ends : \A j \in ends : k <= j
                   body == SubSeq(s, i + 1, end - 1)
               IN IF \E k \in 1..Len(body) : body[k] < 32 THEN JsonErr
                  ELSE [JsonErr EXCEPT !.ok = TRUE, !.v = Some(body), !.next = end + 1]

(* An Option<String> at place i: a JSON string or null *)
parse_val(s, i) ==
  IF i <= Len(s) /\ s[i] = 34 THEN parse_str(s, i)
  ELSE IF SubSeq(s, i, i + 3) = <<110, 117, 108, 108>>
       THEN [JsonErr EXCEPT !.ok = TRUE, !.next = i + 4]
       ELSE JsonErr

(* The members of an object from the key at place i on, up to the closing  *)
(* brace: a field of JsonPayload given twice is an error, other keys are   *)
(* skipped                                                                 *)
RECURSIVE parse_members(_, _, _, _)
parse_members(s, i, json, seen) ==
  LET key == parse_str(s, i)
      colon == skip_ws(s, key.next)
      val == parse_val(s, skip_ws(s, colon + 1))
      after == skip_ws(s, val.next)
      fields == {f \in DOMAIN JsonFields : JsonFields[f] = key.v.v}
      filled == [f \in DOMAIN JsonFields |-> IF f \in fields THEN val.v ELSE json[f]]
  IN IF ~key.ok THEN JsonErr
     ELSE IF colon > Len(s) \/ s[colon] # 58 THEN JsonErr
     ELSE IF ~val.ok THEN JsonErr
     ELSE IF fields # {} /\ key.v.v \in seen THEN JsonErr
     ELSE IF after > Len(s) THEN JsonErr
     ELSE IF s[after] = 125
          THEN [JsonErr EXCEPT !.ok = TRUE, !.next = after + 1, !.json = filled]
     ELSE IF s[after] = 44
          THEN parse_members(s, skip_ws(s, after + 1), filled, seen \cup {key.v.v})
     ELSE JsonErr

from_str(s) ==
  LET open == skip_ws(s, 1)
      first == skip_ws(s, open + 1)
      obj == IF open > Len(s) \/ s[open] # 123 THEN JsonErr
             ELSE IF first > Len(s) THEN JsonErr
             ELSE IF s[first] = 125
                  THEN [JsonErr EXCEPT !.ok = TRUE, !.next = first + 1]
             ELSE parse_members(s, first, NoPayload, {})
  IN IF obj.ok /\ skip_ws(s, obj.next) <= Len(s) THEN JsonErr ELSE obj

(* Option::or *)
or(a, b) == IF a.some THEN a ELSE b

(* OpenAIClient::chat from line 170 on: the ChatReply made of the          *)
(* accumulated content and reasoning. error_prefix is the message of       *)
(* MessageKey::JsonParseError and e the text of the serde_json error.      *)
chat_reply(accumulated_content, accumulated_reasoning, error_prefix, e) ==
  LET parsed == from_str(extract_json(accumulated_content))
      json == parsed.json
      suggested_command == IF parsed.ok THEN json.command ELSE NoStr
      display_text ==
        IF parsed.ok
        THEN or(or(or(json.answer, json.note), json.explanation), json.message).v
        ELSE error_prefix \o e \o <<93, 10>> \o accumulated_content
  IN [text |-> IF display_text = <<>> THEN accumulated_content ELSE display_text,
      suggested_command |-> suggested_command,
      reasoning |-> IF accumulated_reasoning = <<>> THEN NoStr
                    ELSE Some(accumulated_reasoning)]

----------------------------------------------------------------------------
(* The functions of chat.rs and llm/openai.rs called on their own *)

(* Everything but result *)
callFrame == <<relayVars, childUp, ptyIn, mainVars, chat, chatEvts, lastEvt,
               llmLast, lastRender, screen, termSize, ptySize, rawMode, pasteMode,
               ui_lang, args>>

(* The strings of at most n characters of alphabet *)
Texts(alphabet, n) == UNION { [1..k -> alphabet] : k \in 0..n }

(* A tab, "a" and a wide character: widths 0, 1 and 2 *)
WidthAlphabet == {9, 97, 23485}

WrapCalls ==
  { [fn |-> "wrap_rows", visible |-> v, cols |-> c] :
      v \in Texts(WidthAlphabet, MaxTextLen), c \in 0..3 }

TruncateCalls ==
  { [fn |-> "truncate_tail_by_width", s |-> v, max_width |-> w] :
      v \in Texts(WidthAlphabet, MaxTextLen), w \in 0..4 }

WrapRows ==
  /\ args.fn = "wrap_rows"
  /\ ~result.done
  /\ result' = [done |-> TRUE, rows |-> wrap_rows(args.visible, args.cols)]
  /\ UNCHANGED callFrame

TruncateTail ==
  /\ args.fn = "truncate_tail_by_width"
  /\ ~result.done
  /\ result' = [done |-> TRUE, tail |-> truncate_tail_by_width(args.s, args.max_width)]
  /\ UNCHANGED callFrame

PreviewCalls == { [fn |-> "reasoning_callback", lang |-> l] : l \in Langs }

(* llm.chat hands one more fragment to the callback: "a", a line break, or *)
(* a wide character with "b", on a terminal 10, 11, 13 or 80 columns wide. *)
OnReasoning(reasoning, term_width) ==
  /\ args.fn = "reasoning_callback"
  /\ LET n == IF result.done THEN result.n ELSE 0
         r == reasoning_callback(IF result.done THEN result.buffer ELSE <<>>,
                                 reasoning, term_width, args.lang)
     IN /\ n < MaxFragments
        /\ result' = [done |-> TRUE, n |-> n + 1, buffer |-> r.buffer,
                      line |-> r.line, term_width |-> term_width]
  /\ UNCHANGED callFrame

(* The contents extract_json is called with: up to MaxPieces of the two    *)
(* fences, "a" and a blank, one after the other                            *)
RECURSIVE Joined(_)
Joined(ps) == IF ps = <<>> THEN <<>> ELSE Head(ps) \o Joined(Tail(ps))

ExtractCalls ==
  { [fn |-> "extract_json", content |-> Joined(ps)] :
      ps \in Texts({ FenceJson, Fence, <<97>>, <<32>> }, MaxPieces) }

ExtractJson ==
  /\ args.fn = "extract_json"
  /\ ~result.done
  /\ result' = [done |-> TRUE, json |-> extract_json(args.content)]
  /\ UNCHANGED callFrame

(* The accumulated contents a stream can end with: the empty one and      *)
(* those named in the comments                                             *)
ReplyContents ==
  { <<>>,
    (* {"command":"ls","answer":"hi"} *)
    << 123, 34, 99, 111, 109, 109, 97, 110, 100, 34, 58, 34, 108, 115, 34,
       44, 34, 97, 110, 115, 119, 101, 114, 34, 58, 34, 104, 105, 34, 125 >>,
    (* { "command": null, "x": "y", "note": "n" } *)
    << 123, 32, 34, 99, 111, 109, 109, 97, 110, 100, 34, 58, 32, 110, 117,
       108, 108, 44, 32, 34, 120, 34, 58, 32, 34, 121, 34, 44, 32, 34, 110,
       111, 116, 101, 34, 58, 32, 34, 110, 34, 32, 125 >>,
    (* {} *)
    << 123, 125 >>,
    (* "```json", a line feed, {"command":"ls"}, a line feed, "```" *)
    << 96, 96, 96, 106, 115, 111, 110, 10, 123, 34, 99, 111, 109, 109, 97,
       110, 100, 34, 58, 34, 108, 115, 34, 125, 10, 96, 96, 96 >>,
    (* hello *)
    << 104, 101, 108, 108, 111 >>,
    (* {"command":"ls" *)
    << 123, 34, 99, 111, 109, 109, 97, 110, 100, 34, 58, 34, 108, 115, 34 >>,
    (* {"command":"ls","command":"rm"} *)
    << 123, 34, 99, 111, 109, 109, 97, 110, 100, 34, 58, 34, 108, 115, 34,
       44, 34, 99, 111, 109, 109, 97, 110, 100, 34, 58, 34, 114, 109, 34, 125 >>,
    (* {"answer":"hi"} ok *)
    << 123, 34, 97, 110, 115, 119, 101, 114, 34, 58, 34, 104, 105, 34, 125,
       32, 111, 107 >> }

ReplyCalls ==
  { [fn |-> "chat", accumulated_content |-> c, accumulated_reasoning |-> r] :
      c \in ReplyContents, r \in { <<>>, <<104, 109>> } }

(* The end of OpenAIClient::chat, once the stream is read. error_prefix is *)
(* the message of MessageKey::JsonParseError, which i18n.rs does not give  *)
(* (any text, empty or not), and e the text of the serde_json error (never *)
(* empty).                                                                 *)
ChatReplyBuilt(error_prefix, e) ==
  /\ args.fn = "chat"
  /\ ~result.done
  /\ result' = [done |-> TRUE,
                parsed |-> from_str(extract_json(args.accumulated_content)).ok,
                reply |-> chat_reply(args.accumulated_content,
                                     args.accumulated_reasoning, error_prefix, e)]
  /\ UNCHANGED callFrame

(* ensure_scroll_space on a terminal of term_rows rows with the cursor on  *)
(* cur_row: the value returned, the lines the screen has scrolled up, the  *)
(* row of the cursor and the row the line the cursor started on is now on. *)
(* Each "\r\n" takes the cursor down a row (rows count from 0), and once   *)
(* the cursor is on the last row scrolls the screen up a line instead;     *)
(* cursor::MoveUp stops at the top row.                                    *)
ensure_scroll_space(term_rows, cur_row, needed_rows) ==
  LET available_below == saturating_sub(term_rows, cur_row + 1)
      scroll_lines == needed_rows - available_below
      printed == [row |-> Min(cur_row + scroll_lines, term_rows - 1),
                  scrolled |-> Max(0, cur_row + scroll_lines - (term_rows - 1))]
  IN IF needed_rows > available_below
     THEN [returned |-> scroll_lines,
           scrolled |-> printed.scrolled,
           cursor_row |-> Max(printed.row - scroll_lines, 0),
           anchor_row |-> cur_row - printed.scrolled]
     ELSE [returned |-> 0, scrolled |-> 0, cursor_row |-> cur_row,
           anchor_row |-> cur_row]

(* Terminals of 5 and of 24 rows, the cursor on any row of the first and   *)
(* on the top, a low and the bottom row of the second, and blocks of up to *)
(* 4 rows                                                                  *)
ScrollCalls ==
  { [fn |-> "ensure_scroll_space", term_rows |-> size[1], cur_row |-> size[2],
     needed_rows |-> n] :
      size \in ({5} \X (0..4)) \cup ({24} \X {0, 20, 23}), n \in 0..4 }

EnsureScrollSpace ==
  /\ args.fn = "ensure_scroll_space"
  /\ ~result.done
  /\ result' = [done |-> TRUE,
                space |-> ensure_scroll_space(args.term_rows, args.cur_row,
                                              args.needed_rows)]
  /\ UNCHANGED callFrame

FunctionCalls ==
  WrapCalls \cup TruncateCalls \cup PreviewCalls \cup ExtractCalls \cup ReplyCalls
    \cup ScrollCalls

InitFunctions ==
  /\ InitBase
  /\ ui_lang = "En"
  /\ args \in FunctionCalls

NextFunctions ==
  \/ WrapRows
  \/ TruncateTail
  \/ \E reasoning \in { <<97>>, TextBreak, <<23485, 98>> },
        term_width \in {10, 11, 13, 80} :
        OnReasoning(reasoning, term_width)
  \/ ExtractJson
  \/ \E error_prefix \in { <<>>, <<91>> }, e \in { <<69>>, <<69, 79, 70>> } :
        ChatReplyBuilt(error_prefix, e)
  \/ EnsureScrollSpace

SpecFunctions == InitFunctions /\ [][NextFunctions]_vars

Spec == Init /\ [][Next]_vars

----------------------------------------------------------------------------
(* Vocabulary of the properties *)

(* One process call with the whole of s on a fresh responder, the cursor   *)
(* being where it is (any answer will do while none was asked for)         *)
Whole(s) == process(<<>>, s, CHOOSE cur \in CursorAnswers : TRUE)

Prefix(s, n) == SubSeq(s, 1, n)
IsPrefix(a, b) == Len(a) <= Len(b) /\ SubSeq(b, 1, Len(a)) = a
IsSuffix(a, b) == Len(a) <= Len(b) /\ SubSeq(b, Len(b) - Len(a) + 1, Len(b)) = a

(* The relay is between two process calls: every call made has returned    *)
(* and its responses and filtered bytes are written.                       *)
Idle == relayPc = "read"

(* The responder holds nothing back after the first n bytes of the input:  *)
(* byte n + 1 arrives with no escape sequence open.                        *)
GroundAt(n) == Whole(Prefix(input, n)).pending = <<>>

NoEscape(s) == \A k \in 1..Len(s) : s[k] # ESC

IsDigits(ds) == ds # <<>> /\ \A k \in 1..Len(ds) : ds[k] \in 48..57

RECURSIVE DecValue(_)
DecValue(ds) ==
  IF ds = <<>> THEN 0
  ELSE 10 * DecValue(SubSeq(ds, 1, Len(ds) - 1)) + (ds[Len(ds)] - 48)

(* r is ESC [ row ; col R with decimal row >= 1 and col >= 1 *)
IsCursorReport(r) ==
  /\ Len(r) >= 6
  /\ r[1] = 27 /\ r[2] = 91 /\ r[Len(r)] = 82
  /\ \E k \in 4..(Len(r) - 2) :
       /\ r[k] = 59
       /\ IsDigits(SubSeq(r, 3, k - 1)) /\ DecValue(SubSeq(r, 3, k - 1)) >= 1
       /\ IsDigits(SubSeq(r, k + 1, Len(r) - 1)) /\ DecValue(SubSeq(r, k + 1, Len(r) - 1)) >= 1

(* The positions of s where the bytes of q stand *)
Occurrences(q, s) == {p \in 1..Len(s) : p + Len(q) - 1 <= Len(s) /\ SubSeq(s, p, p + Len(q) - 1) = q}

NumReports(rs) == Cardinality({k \in 1..Len(rs) : IsCursorReport(rs[k])})

(* a and b are the responder's results before and after a piece of the     *)
(* input: b sent exactly one more response, a cursor report.               *)
OneMoreReport(a, b) ==
  /\ Len(b.resps) = Len(a.resps) + 1
  /\ Prefix(b.resps, Len(a.resps)) = a.resps
  /\ IsCursorReport(b.resps[Len(b.resps)])

----------------------------------------------------------------------------
(* C1: chunk-size independence.  However the stream read so far was cut    *)
(* into chunks, the filtered output written and the responses sent are     *)
(* those of one process call with the whole stream on a fresh responder,   *)
(* the cursor position being the same.                                     *)
ChunkSizeIndependence ==
  Idle => /\ stdout = Whole(input).out
          /\ resps = Whole(input).resps

(* A read ended inside the cursor query, after a query was answered and    *)
(* bytes were passed on.                                                   *)
SplitInsideQuery ==
  /\ Idle
  /\ pending = <<27, 91, 54>>
  /\ ptyOut = <<110>>
  /\ resps # <<>>
  /\ stdout # <<>>

----------------------------------------------------------------------------
(* C2 as stated: wherever the four bytes ESC [ 6 n stand in the stream,    *)
(* one cursor report is sent for them and they are not in the filtered     *)
(* output.  Once nothing is pending there are as many reports as queries   *)
(* and no query in the output.                                             *)
CursorQueryAnsweredAnywhere ==
  (Idle /\ pending = <<>>) =>
     /\ NumReports(resps) = Cardinality(Occurrences(QueryCursor, input))
     /\ Occurrences(QueryCursor, stdout) = {}

(* C2 amended: a cursor query that arrives while no escape sequence is     *)
(* open gets exactly one response, a report ESC [ r ; c R with r, c >= 1,  *)
(* and none of its bytes is written to the output.                         *)
CursorQueryAnsweredAtGround ==
  Idle => \A p \in Occurrences(QueryCursor, input) :
    GroundAt(p - 1) =>
      LET a == Whole(Prefix(input, p - 1))
          b == Whole(Prefix(input, p + 3))
      IN /\ OneMoreReport(a, b)
         /\ b.out = a.out
         /\ b.pending = <<>>
         /\ IsPrefix(b.resps, resps)
         /\ IsPrefix(a.out, stdout)

(* A cursor query with bytes before and after it was answered, the row     *)
(* being the saturated one.                                                *)
QueryBetweenBytesAnswered ==
  /\ Idle
  /\ cursor.st = "ok"
  /\ input = <<110>> \o QueryCursor \o <<7>>
  /\ stdout = <<110, 7>>
  /\ Len(resps) = 1 /\ IsCursorReport(resps[1])

----------------------------------------------------------------------------
(* C3: the filtered output followed by the pending buffer is the input     *)
(* with some of the places where a query stands cut out, and the           *)
(* responses sent are the answers to exactly those queries, in order:      *)
(* nothing else is dropped, added, changed or moved.                       *)
QueryLenAt(s, p) == IF s[p + 2] = 99 THEN 3 ELSE 4

QueryPlaces(s) ==
  Occurrences(QueryCursor, s) \cup Occurrences(QueryStatus, s) \cup Occurrences(QueryAttrs, s)

(* s from position k on, without the queries that stand at the places D *)
RECURSIVE CutOut(_, _, _)
CutOut(s, D, k) ==
  IF k > Len(s) THEN <<>>
  ELSE IF k \in D THEN CutOut(s, D, k + QueryLenAt(s, k))
  ELSE <<s[k]>> \o CutOut(s, D, k + 1)

(* the places of D in increasing order *)
RECURSIVE Ascending(_)
Ascending(D) ==
  IF D = {} THEN <<>>
  ELSE LET m == CHOOSE x \in D : \A y \in D : x <= y
       IN <<m>> \o Ascending(D \ {m})

Answers(s, p, r) ==
  IF SubSeq(s, p, p + QueryLenAt(s, p) - 1) = QueryStatus THEN r = StatusOk
  ELSE IF SubSeq(s, p, p + QueryLenAt(s, p) - 1) = QueryAttrs THEN r = AttrsVt100
  ELSE IsCursorReport(r)

OnlyQueriesRemoved ==
  Idle => \E D \in SUBSET QueryPlaces(input) :
            /\ CutOut(input, D, 1) = stdout \o pending
            /\ Len(resps) = Cardinality(D)
            /\ \A k \in 1..Len(resps) : Answers(input, Ascending(D)[k], resps[k])

(* The query after an OSC sequence was cut out; the same bytes inside the  *)
(* OSC sequence were copied, and the open escape is held back.             *)
QueryCutFromMixedStream ==
  /\ Idle
  /\ input = OscWithQuery \o QueryCursor \o <<27>>
  /\ stdout = OscWithQuery
  /\ pending = <<27>>
  /\ Len(resps) = 1

----------------------------------------------------------------------------
(* C4: while the stream holds no escape byte, every process call returns   *)
(* its chunk unchanged, sends no response and leaves nothing pending.      *)
PlainChunkUnchanged ==
  [][ (input' # input /\ NoEscape(input')) =>
        /\ stdout' = stdout \o SubSeq(input', Len(input) + 1, Len(input'))
        /\ resps' = resps
        /\ pending' = <<>>
        /\ relayPc' = "read" ]_vars

(* Three plain bytes, a control byte among them, went through.             *)
PlainBytesPassed ==
  /\ Idle
  /\ input = <<7, 32, 110>>
  /\ stdout = input
  /\ ptyOut = <<>>
  /\ resps = <<>>

----------------------------------------------------------------------------
(* The sequence forms of the responder, written from their grammar.        *)

(* k is the last byte of a BEL or of an ESC \ that stands in the payload   *)
(* of the string sequence s (the payload starts at byte 3)                 *)
EndsString(s, k, bel) ==
  \/ bel /\ s[k] = BEL
  \/ k >= 4 /\ s[k] = 92 /\ s[k - 1] = ESC

IsCsi(s) ==
  /\ Len(s) >= 3 /\ s[1] = ESC /\ s[2] = 91
  /\ s[Len(s)] \in 64..126
  /\ \A k \in 3..(Len(s) - 1) : s[k] \notin 64..126

IsOsc(s) ==
  /\ Len(s) >= 3 /\ s[1] = ESC /\ s[2] = 93
  /\ EndsString(s, Len(s), TRUE)
  /\ \A k \in 3..(Len(s) - 1) : ~EndsString(s, k, TRUE)

(* s starts with ESC and its terminator has not arrived *)
Unterminated(s) ==
  /\ s # <<>> /\ s[1] = ESC
  /\ Len(s) >= 2 =>
       IF s[2] = 91 THEN \A k \in 3..Len(s) : s[k] \notin 64..126
       ELSE IF s[2] = 93 THEN \A k \in 3..Len(s) : ~EndsString(s, k, TRUE)
       ELSE IF s[2] \in {80, 88, 94, 95} THEN \A k \in 3..Len(s) : ~EndsString(s, k, FALSE)
       ELSE \A k \in 2..Len(s) : s[k] \in 32..47

----------------------------------------------------------------------------
----------------------------------------------------------------------------
(* C6: a CSI sequence ends at the first byte in 0x40..0x7E after ESC [.    *)
(* One that arrives with no sequence open is answered with ESC [ 0 n if it *)
(* is ESC [ 5 n, with ESC [ ? 1 ; 0 c if it is ESC [ c, with a cursor       *)
(* report if it is ESC [ 6 n, and is otherwise copied to the output with   *)
(* no response.                                                            *)
CsiAnsweredOrCopied ==
  Idle => \A p \in 1..Len(input) : \A q \in (p + 2)..Len(input) :
    (IsCsi(SubSeq(input, p, q)) /\ GroundAt(p - 1)) =>
      LET seq == SubSeq(input, p, q)
          a == Whole(Prefix(input, p - 1))
          b == Whole(Prefix(input, q))
      IN /\ b.pending = <<>>
         /\ IF seq = QueryStatus THEN b.resps = Append(a.resps, StatusOk) /\ b.out = a.out
            ELSE IF seq = QueryAttrs THEN b.resps = Append(a.resps, AttrsVt100) /\ b.out = a.out
            ELSE IF seq = QueryCursor THEN OneMoreReport(a, b) /\ b.out = a.out
            ELSE b.resps = a.resps /\ b.out = a.out \o seq
         /\ IsPrefix(b.out, stdout)
         /\ IsPrefix(b.resps, resps)

(* The status query was answered and a CSI sequence that is no query was   *)
(* copied.                                                                 *)
CsiQueryAndOtherSeen ==
  /\ Idle
  /\ input = QueryStatus \o <<27, 91, 110>>
  /\ resps = <<StatusOk>>
  /\ stdout = <<27, 91, 110>>
  /\ pending = <<>>

----------------------------------------------------------------------------
(* C7: an OSC sequence that arrives with no sequence open is copied to the *)
(* output unchanged up to its first BEL or ESC \ and causes no response,   *)
(* whatever its payload.                                                   *)
OscCopied ==
  Idle => \A p \in 1..Len(input) : \A q \in (p + 2)..Len(input) :
    (IsOsc(SubSeq(input, p, q)) /\ GroundAt(p - 1)) =>
      LET a == Whole(Prefix(input, p - 1))
          b == Whole(Prefix(input, q))
      IN /\ b.pending = <<>>
         /\ b.resps = a.resps
         /\ b.out = a.out \o SubSeq(input, p, q)
         /\ IsPrefix(b.out, stdout)
         /\ IsPrefix(b.resps, resps)

(* An OSC whose payload is the cursor query, ended by ESC \, was copied    *)
(* unanswered.                                                             *)
OscWithQueryCopied ==
  /\ Idle
  /\ input = OscStart \o QueryCursor \o StringTerminator
  /\ stdout = input
  /\ resps = <<>>
  /\ pending = <<>>

----------------------------------------------------------------------------
(* C8 as stated: an escape sequence of the remaining form, arriving with   *)
(* no sequence open, runs over its intermediate bytes and ends at the      *)
(* first byte after them exactly if that byte is in 0x30..0x7E; any other  *)
(* byte is not its final byte, so the sequence stays open.                 *)
EscEndsOnlyAtFinalByte ==
  Idle => \A p \in 1..Len(input) : \A q \in (p + 1)..Len(input) :
    ( /\ input[p] = ESC
      /\ input[p + 1] \notin {91, 93, 80, 88, 94, 95}
      /\ \A k \in (p + 1)..(q - 1) : input[k] \in 32..47
      /\ input[q] \notin 32..47
      /\ GroundAt(p - 1) )
    => ( Whole(Prefix(input, q)).pending = <<>>  <=>  input[q] \in 48..126 )

----------------------------------------------------------------------------
(* C9: when the relay's loop ends, on a read of zero bytes or on a read    *)
(* error, finish writes the pending bytes that stand before the first      *)
(* escape byte (all of them if there is none), drops the rest and leaves   *)
(* the pending buffer empty; nothing else ends the relay.                  *)
PlainHead(s) ==
  LET k == CHOOSE k \in 0..Len(s) :
             /\ \A j \in 1..k : s[j] # ESC
             /\ k = Len(s) \/ s[k + 1] = ESC
  IN SubSeq(s, 1, k)

FinishFlushesPlainHead ==
  [][ (relayPc' = "done" /\ relayPc # "done") =>
        /\ relayPc = "read"
        /\ stdout' = stdout \o PlainHead(pending)
        /\ pending' = <<>>
        /\ resps' = resps
        /\ input' = input ]_vars

(* The stream ended inside a CSI sequence: its two bytes were dropped.     *)
OpenTailDropped ==
  /\ relayPc = "done"
  /\ input = <<110, 27, 91>>
  /\ stdout = <<110>>
  /\ pending = <<>>

----------------------------------------------------------------------------
(* C10 as stated: the bytes of one key (Alt+key's ESC and character        *)
(* among them), of one injected command and of one response stand          *)
(* together in the PTY input, whatever the two threads' interleaving.      *)
SequencesContiguous ==
  \A i \in 1..Len(ptyIn) : \A j \in i..Len(ptyIn) :
    (ptyIn[i].w = ptyIn[j].w /\ ptyIn[i].u = ptyIn[j].u) =>
      \A k \in i..j : ptyIn[k].w = ptyIn[i].w /\ ptyIn[k].u = ptyIn[i].u

----------------------------------------------------------------------------
(* Vocabulary of the overlay's properties *)

CtrlKey(ch) == KeyEvt(Key("Press", "Char", ch, TRUE, FALSE))
AcceptKey == CtrlKey(108)
ToggleKey == CtrlKey(114)

(* This step is chat_mode reading and handling one event. *)
ChatTurn == mainPc = "chat" /\ chatEvts' = chatEvts + 1

(* The bytes in the PTY input, without their labels *)
PtyBytes == [k \in 1..Len(ptyIn) |-> ptyIn[k].b]

(* The places in the PTY input of the bytes writer w wrote for event u *)
Places(w, u) == {k \in 1..Len(ptyIn) : ptyIn[k].w = w /\ ptyIn[k].u = u}

(* The events for which a command has been or is about to be written *)
CmdEvents ==
  {ptyIn[k].u : k \in {m \in 1..Len(ptyIn) : ptyIn[m].w = "cmd"}}
  \cup {mainQ[k].u : k \in {m \in 1..Len(mainQ) : mainQ[m].w = "cmd"}}

----------------------------------------------------------------------------
(* C11 as stated: while the chat overlay is active (from chat_mode's       *)
(* welcome line to its return) the relay thread writes nothing to the      *)
(* terminal's standard output.                                             *)
NoRelayOutputInOverlay ==
  [][(mainPc = "chat" /\ mainPc' = "chat") => stdout' = stdout]_vars

----------------------------------------------------------------------------
(* C12 as stated: when the LLM call made on Enter fails, the overlay stays *)
(* active with an empty-handed prompt and the process goes on: chat_mode   *)
(* does not return and raw mode is not left.                               *)
LlmFailureKeepsOverlay ==
  [][(ChatTurn /\ calls_llm(chat, lastEvt') /\ ~llmLast'.ok)
       => (mainPc' = "chat" /\ rawMode' /\ pasteMode')]_vars

----------------------------------------------------------------------------
(* C13 as stated: on accept the command's bytes are written first and the  *)
(* carriage return after them: no carriage return of an accept is in the   *)
(* PTY before the first byte of its command.                               *)
CommandThenReturn ==
  \A u \in CmdEvents : \A i \in Places("cr", u) :
    \E j \in Places("cmd", u) : j < i

(* C13 amended: on accept the carriage return is written first and the     *)
(* command's bytes after it, with no carriage return after the command.    *)
ReturnThenCommand ==
  \A u \in CmdEvents :
    /\ Places("cr", u) # {}
    /\ \A i \in Places("cr", u) : \A j \in Places("cmd", u) : i < j
    /\ Cardinality(Places("cr", u)) = 1

(* The overlay has been left by accept with "ls -la". *)
AcceptedCommandWritten ==
  /\ mainPc = "poll"
  /\ lastEvt = AcceptKey
  /\ PtyBytes = <<13>> \o as_bytes(TextLsLa)

----------------------------------------------------------------------------
(* C14: a suggested command is queued for the PTY only in the step in      *)
(* which chat_mode reads Ctrl+L while it holds that command, and command   *)
(* bytes enter the PTY only from that queue; no other event (cancel,       *)
(* toggle, Enter, typing, paste, resize) gets a command written.           *)
CommandOnlyOnAccept ==
  [][/\ (mainQ' # mainQ /\ \E k \in 1..Len(mainQ') : mainQ'[k].w = "cmd")
        => /\ ChatTurn
           /\ lastEvt' = AcceptKey
           /\ chat.last_cmd.some
           /\ mainQ' = << [w |-> "cmd", u |-> keys,
                           bytes |-> as_bytes(chat.last_cmd.v)] >>
     /\ (\E k \in (Len(ptyIn) + 1)..Len(ptyIn') : ptyIn'[k].w = "cmd")
        => /\ mainQ # <<>>
           /\ Head(mainQ).w = "cmd"
           /\ ptyIn' = write_bytes(ptyIn, Head(mainQ).bytes, "cmd", Head(mainQ).u)
    ]_vars

(* Command bytes have reached the PTY. *)
CommandInjected ==
  \E k \in 1..Len(ptyIn) : ptyIn[k].w = "cmd"

----------------------------------------------------------------------------
(* C15: when chat_mode reads Ctrl+L, it returns the suggested command of   *)
(* the latest reply if that reply has one that is not empty, and the       *)
(* command gets written; otherwise (no reply yet, or the latest reply has  *)
(* no command or an empty one) it returns nothing and the overlay goes on, *)
(* whatever earlier replies suggested.                                     *)
AcceptReturnsLatestSuggestion ==
  [][(ChatTurn /\ lastEvt' = AcceptKey)
       => IF /\ llmLast.called /\ llmLast.ok
             /\ llmLast.suggested_command.some
             /\ llmLast.suggested_command.v # <<>>
          THEN /\ mainPc' = "write"
               /\ mainQ' = << [w |-> "cmd", u |-> keys,
                               bytes |-> as_bytes(llmLast.suggested_command.v)] >>
          ELSE /\ mainPc' = "chat"
               /\ mainQ' = mainQ
               /\ ptyIn' = ptyIn
    ]_vars

(* The reply "lists files" with the command "ls -la" has been accepted and *)
(* the command written.                                                    *)
LatestSuggestionReturned ==
  /\ lastEvt = AcceptKey
  /\ llmLast = Reply(TextListsFiles, Some(TextLsLa), Some(TextCheckDir))
  /\ mainPc = "poll"
  /\ \E k \in 1..Len(ptyIn) : ptyIn[k].w = "cmd"

----------------------------------------------------------------------------
(* C16 as stated: after the foreground thread has read a resize event, in  *)
(* the main loop or in the overlay, the PTY has the size of that event.    *)
ResizeForwarded ==
  lastEvt.type = "Resize" => ptySize = lastEvt.size

----------------------------------------------------------------------------
(* C17 as stated: when the foreground thread has ended, by return, by      *)
(* error or by panic, raw mode and bracketed paste are off.                *)
TerminalModesRestored ==
  mainPc \in {"done", "failed", "panicked"} => (~rawMode /\ ~pasteMode)

----------------------------------------------------------------------------
(* C18 as stated: once the child has exited, the main thread eventually    *)
(* leaves its loop and returns normally with raw mode off, whether it was  *)
(* forwarding keys or in the overlay.                                      *)
ChildExitEndsMain ==
  (~childUp) ~> (mainPc = "done" /\ ~rawMode)

----------------------------------------------------------------------------
(* C19 as stated: render_reply_block called with max_rows the terminal's   *)
(* height returns a row count of at most max_rows.                         *)
RenderWithinHeight ==
  (args.fn = "render_reply_block" /\ result.done) => result.rows <= args.max_rows

----------------------------------------------------------------------------
(* C20 as stated: the toggle that collapses an expanded reply leaves the   *)
(* flag as it was before the expansion (collapsed) and last_reply_rows at  *)
(* the value it had before the expansion.                                  *)
ToggleTwiceSameRows ==
  [][(ChatTurn /\ lastEvt' = ToggleKey /\ chat.reasoning_expanded)
       => /\ ~chat'.reasoning_expanded
          /\ chat'.last_reply_rows = lastRender.base.rows]_vars

(* C20 amended: the same, when the terminal is as wide at the collapsing   *)
(* toggle as it was when the block before the expansion was rendered.      *)
ToggleTwiceSameRowsAtSameWidth ==
  [][(/\ ChatTurn /\ lastEvt' = ToggleKey /\ chat.reasoning_expanded
      /\ termSize'.cols = lastRender.base.cols)
       => /\ ~chat'.reasoning_expanded
          /\ chat'.last_reply_rows = lastRender.base.rows]_vars

(* A reply with reasoning has been expanded and collapsed again. *)
ExpandedAndCollapsed ==
  /\ mainPc = "chat"
  /\ lastEvt = ToggleKey
  /\ chat.last_reasoning.some
  /\ ~chat.reasoning_expanded
  /\ lastRender.base.rows > 0
  /\ chat.last_reply_rows = lastRender.base.rows

----------------------------------------------------------------------------
(* Vocabulary of the geometry's properties *)

(* The display width of the spec: ASCII control characters 0, other ASCII  *)
(* 1, everything else 2                                                    *)
DisplayWidth(text) ==
  Cardinality({k \in 1..Len(text) : text[k] \in 32..126})
  + 2 * Cardinality({k \in 1..Len(text) : text[k] > 127})

(* ceil(a / b) for b > 0 *)
Ceil(a, b) == (a + b - 1) \div b

(* The terminal rows a printed line takes: an empty line takes one. *)
RowsOfLine(text, cols) == Ceil(IF DisplayWidth(text) = 0 THEN 1 ELSE DisplayWidth(text), cols)

(* The terminal rows the printed lines take together *)
RECURSIVE RowsOccupied(_, _)
RowsOccupied(ls, cols) ==
  IF ls = <<>> THEN 0 ELSE RowsOfLine(Head(ls), cols) + RowsOccupied(Tail(ls), cols)

----------------------------------------------------------------------------
(* C21 as stated: the row count render_reply_block returns is the number   *)
(* of terminal rows its printed lines take, the sum over the lines of      *)
(* ceil(max(displayWidth, 1) / columns), also when the oldest shown        *)
(* reasoning line is cut to the rows that are left.                        *)
RowsReturnedArePrinted ==
  (args.fn = "render_reply_block" /\ result.done /\ args.term_cols > 0)
    => result.rows = RowsOccupied(result.lines, args.term_cols)

----------------------------------------------------------------------------
(* C22 as stated: at every toggle that redraws, whatever chat_mode has     *)
(* handled since the last render, the prompt line is last_reply_rows rows  *)
(* below the first row of the last reply block, so that the cursor moved   *)
(* up by last_reply_rows stands on that first row.                         *)
ToggleStartsAtBlockTop ==
  [][(ChatTurn /\ lastEvt' = ToggleKey /\ chat.last_reasoning.some
      /\ chat.last_reply_rows > 0)
       => screen.below = chat.last_reply_rows]_vars

----------------------------------------------------------------------------
(* Every character of buf is white space. *)
Blank(buf) == \A k \in 1..Len(buf) : buf[k] \in {9, 10, 11, 12, 13, 32}

EnterKey == KeyEvt(Key("Press", "Enter", 0, FALSE, FALSE))

(* C27: Ctrl+R with no reasoning held changes none of reasoning_expanded,  *)
(* last_reply_rows, the input line and the history, writes nothing to the  *)
(* terminal and leaves the overlay active.                                 *)
ToggleWithoutReasoningIsNoOp ==
  [][(ChatTurn /\ lastEvt' = ToggleKey /\ ~chat.last_reasoning.some)
       => /\ mainPc' = "chat"
          /\ chat'.reasoning_expanded = chat.reasoning_expanded
          /\ chat'.last_reply_rows = chat.last_reply_rows
          /\ chat'.buf = chat.buf
          /\ chat'.history = chat.history
          /\ screen'.printed = <<>>
          /\ screen'.below = screen.below]_vars

(* Ctrl+R has been read under a rendered reply that has no reasoning. *)
ToggleReadWithoutReasoning ==
  /\ mainPc = "chat"
  /\ lastEvt = ToggleKey
  /\ ~chat.last_reasoning.some
  /\ chat.last_reply_rows > 0
  /\ screen.printed = <<>>

----------------------------------------------------------------------------
(* C28: Enter on an input line that holds nothing but white space makes no *)
(* LLM call and leaves the history, the last command, the last reasoning,  *)
(* the expanded flag and last_reply_rows as they are; the overlay goes on. *)
BlankEnterIgnored ==
  [][(ChatTurn /\ lastEvt' = EnterKey /\ Blank(chat.buf))
       => /\ mainPc' = "chat"
          /\ llmLast' = llmLast
          /\ chat'.history = chat.history
          /\ chat'.last_cmd = chat.last_cmd
          /\ chat'.last_reasoning = chat.last_reasoning
          /\ chat'.reasoning_expanded = chat.reasoning_expanded
          /\ chat'.last_reply_rows = chat.last_reply_rows]_vars

(* Enter has been read on a blank line after a reply: only a line feed and *)
(* the prompt were written, and the reply's state is still held.           *)
BlankEnterAfterReply ==
  /\ mainPc = "chat"
  /\ lastEvt = EnterKey
  /\ screen.printed = <<"newline", "prompt">>
  /\ chat.history # <<>>
  /\ chat.last_reply_rows > 0

----------------------------------------------------------------------------
(* C23 as stated: wrap_rows(text, cols) is ceil(displayWidth(text) / cols) *)
(* for every text, those of display width 0 included, and every cols > 0,  *)
(* and is 1 when cols = 0.                                                 *)
WrapRowsIsCeil ==
  (args.fn = "wrap_rows" /\ result.done)
    => result.rows = IF args.cols = 0 THEN 1
                     ELSE Ceil(DisplayWidth(args.visible), args.cols)

(* C23 amended: wrap_rows(text, cols) is ceil(max(displayWidth(text), 1) / *)
(* cols) for every text and every cols > 0, so 1 for a text of display     *)
(* width 0, and is 1 when cols = 0.                                        *)
WrapRowsIsCeilOfAtLeastOne ==
  (args.fn = "wrap_rows" /\ result.done)
    => result.rows = IF args.cols = 0 THEN 1
                     ELSE IF DisplayWidth(args.visible) = 0 THEN 1
                     ELSE Ceil(DisplayWidth(args.visible), args.cols)

(* wrap_rows has been called on a text of display width 0 that is not     *)
(* empty and has returned 1.                                               *)
WrapRowsCalledOnWidthZero ==
  /\ args.fn = "wrap_rows"
  /\ result.done
  /\ args.cols = 3
  /\ args.visible = <<9, 9>>
  /\ result.rows = 1

----------------------------------------------------------------------------
(* The suffixes of text, the empty one included *)
Suffixes(text) == { SubSeq(text, k, Len(text)) : k \in 1..(Len(text) + 1) }

(* C24 as stated: for every text and every w >= 0 the result of            *)
(* truncate_tail_by_width(text, w) is a suffix of text of display width at *)
(* most w, and no longer suffix of text has display width at most w.       *)
TruncateTailIsMaximal ==
  (args.fn = "truncate_tail_by_width" /\ result.done)
    => /\ result.tail \in Suffixes(args.s)
       /\ DisplayWidth(result.tail) <= args.max_width
       /\ \A x \in Suffixes(args.s) :
             DisplayWidth(x) <= args.max_width => Len(x) <= Len(result.tail)

----------------------------------------------------------------------------
(* C25 as stated: after every reasoning fragment the accumulator holds no  *)
(* line feed and no carriage return, and the preview line (the thinking    *)
(* prefix and the visible tail) is at most as wide as the terminal,        *)
(* whatever the terminal's width.                                          *)
PreviewFitsOneRow ==
  (args.fn = "reasoning_callback" /\ result.done)
    => /\ \A k \in 1..Len(result.buffer) : result.buffer[k] \notin {10, 13}
       /\ DisplayWidth(result.line) <= result.term_width

----------------------------------------------------------------------------
(* The places in text where pat stands *)
PlacesOf(text, pat) ==
  {i \in 1..(Len(text) - Len(pat) + 1) : SubSeq(text, i, i + Len(pat) - 1) = pat}

Least(S) == CHOOSE i \in S : \A j \in S : i <= j

(* The places of the "```" that can close a fence of length n opened at i *)
Closers(text, i, n) == {k \in PlacesOf(text, Fence) : k >= i + n}

(* The trimmed text between the fence of length n opened at i and its      *)
(* closing "```"                                                           *)
Between(text, i, n) == trim(SubSeq(text, i + n, Least(Closers(text, i, n)) - 1))

(* C29 as stated: extract_json returns the trimmed text between the first  *)
(* "```json" fence, or failing such a fence the first "```" fence, and the *)
(* next "```" after it; with no fence, or with that fence never closed,    *)
(* the whole input trimmed.                                                *)
ExtractJsonTakesFirstFence ==
  (args.fn = "extract_json" /\ result.done)
    => LET text == trim(args.content)
           J == PlacesOf(text, FenceJson)
           F == PlacesOf(text, Fence)
       IN result.json =
            IF J # {}
            THEN IF Closers(text, Least(J), 7) # {} THEN Between(text, Least(J), 7)
                 ELSE text
            ELSE IF F # {}
            THEN IF Closers(text, Least(F), 3) # {} THEN Between(text, Least(F), 3)
                 ELSE text
            ELSE text

(* C29 amended: extract_json returns the trimmed text between the first    *)
(* "```json" fence and the next "```" after it; when there is no "```json" *)
(* fence or the first one is never closed, the trimmed text between the    *)
(* first "```" and the next "```" after it; and when there is no such pair *)
(* either, the whole input trimmed.                                        *)
ExtractJsonFallsBackToPlainFence ==
  (args.fn = "extract_json" /\ result.done)
    => LET text == trim(args.content)
           J == PlacesOf(text, FenceJson)
           F == PlacesOf(text, Fence)
       IN result.json =
            IF J # {} /\ Closers(text, Least(J), 7) # {}
            THEN Between(text, Least(J), 7)
            ELSE IF F # {} /\ Closers(text, Least(F), 3) # {}
            THEN Between(text, Least(F), 3)
            ELSE text

(* extract_json has been called on "```a```json", where the "```json"      *)
(* fence is not closed and a "```" stands before it, and has returned "a". *)
UnclosedJsonFenceAfterPlainFence ==
  /\ args.fn = "extract_json"
  /\ result.done
  /\ args.content = Fence \o <<97>> \o FenceJson
  /\ result.json = <<97>>

----------------------------------------------------------------------------
(* C26: when the accumulated content is not valid structured JSON, the     *)
(* text of the ChatReply is the accumulated content itself, with nothing   *)
(* before or after it, and there is no suggested command.                  *)
InvalidJsonShownVerbatim ==
  (args.fn = "chat" /\ result.done /\ ~result.parsed)
    => /\ result.reply.text = args.accumulated_content
       /\ ~result.reply.suggested_command.some

----------------------------------------------------------------------------
(* C30: when needed_rows is more than the rows below the cursor,           *)
(* ensure_scroll_space makes the terminal scroll by the deficit            *)
(* (needed_rows less the rows below), leaves the cursor on the line it     *)
(* started on, and at least needed_rows rows are then below that line,     *)
(* whatever row the cursor started on.                                     *)
ScrollLeavesNeededRowsBelowAnchor ==
  LET available == args.term_rows - (args.cur_row + 1)
  IN (args.fn = "ensure_scroll_space" /\ result.done /\ args.needed_rows > available)
       => /\ result.space.scrolled = args.needed_rows - available
          /\ result.space.cursor_row = result.space.anchor_row
          /\ args.term_rows - 1 - result.space.anchor_row >= args.needed_rows

----------------------------------------------------------------------------
(* The reasoning part of the block render_reply_block has printed: its     *)
(* lines but for the answer line and the candidate line, if there is one.  *)
ClosingLines == IF shown_cmd(args.cmd).some THEN 2 ELSE 1

ReasoningPart == SubSeq(result.lines, 1, Len(result.lines) - ClosingLines)

(* The rows reserved for header, footer, answer and candidate *)
ReservedRows ==
  RowsOfLine(t(args.lang, "ReasoningStart"), args.term_cols)
  + RowsOfLine(t(args.lang, "ReasoningEnd"), args.term_cols)
  + RowsOccupied(SubSeq(result.lines, Len(result.lines) - ClosingLines + 1,
                        Len(result.lines)), args.term_cols)

(* The truncation notice stands under the header *)
NoticePrinted ==
  /\ Len(ReasoningPart) >= 3
  /\ ReasoningPart[2] = t(args.lang, "ReasoningTruncated")

(* The reasoning content shown between header (and notice) and footer *)
ShownContent ==
  SubSeq(ReasoningPart, IF NoticePrinted THEN 3 ELSE 2, Len(ReasoningPart) - 1)

(* shown is a tail of ls in the order of ls, its first line possibly cut   *)
(* to a tail of the line it stands for                                     *)
IsTailOf(shown, ls) ==
  /\ Len(shown) <= Len(ls)
  /\ \A i \in 1..Len(shown) :
       LET line == ls[Len(ls) - Len(shown) + i]
       IN IF i = 1 THEN shown[i] \in Suffixes(line) ELSE shown[i] = line

(* C31: render_reply_block called with reasoning to show expanded. When    *)
(* the rows reserved for header, footer, answer and candidate reach        *)
(* max_rows, the reasoning part is the collapsed hint alone. Otherwise it  *)
(* is header, content, footer, where the content is a tail of the          *)
(* reasoning lines in their order, the oldest shown line possibly cut to   *)
(* its tail; the truncation notice is printed exactly when content was     *)
(* dropped, and it is printed whenever the content rows exceed the budget  *)
(* left after the reserved rows.                                           *)
ExpandedShowsTailWithNotice ==
  (args.fn = "render_reply_block" /\ result.done /\ args.reasoning.some
   /\ args.reasoning_expanded)
    => IF ReservedRows >= args.max_rows
       THEN ReasoningPart = <<t(args.lang, "HintToggleReasoning")>>
       ELSE /\ Len(ReasoningPart) >= 2
            /\ ReasoningPart[1] = t(args.lang, "ReasoningStart")
            /\ ReasoningPart[Len(ReasoningPart)] = t(args.lang, "ReasoningEnd")
            /\ IsTailOf(ShownContent, lines(args.reasoning.v))
            /\ NoticePrinted <=> ShownContent # lines(args.reasoning.v)
            /\ RowsOccupied(lines(args.reasoning.v), args.term_cols)
                  > args.max_rows - ReservedRows
                 => NoticePrinted

(* An expanded block has been printed with the notice, and the oldest line *)
(* it shows is a line of the reasoning cut to its tail.                    *)
ExpandedTailCut ==
  /\ args.fn = "render_reply_block"
  /\ result.done
  /\ args.reasoning.some
  /\ args.reasoning_expanded
  /\ ReservedRows < args.max_rows
  /\ NoticePrinted
  /\ ShownContent # <<>>
  /\ ShownContent[1]
       # lines(args.reasoning.v)[Len(lines(args.reasoning.v)) - Len(ShownContent) + 1]

----------------------------------------------------------------------------
(* h has even length and its roles go User, Assistant, User, Assistant. *)
Alternating(h) ==
  /\ Len(h) % 2 = 0
  /\ \A k \in 1..Len(h) : h[k].role = IF k % 2 = 1 THEN "User" ELSE "Assistant"

(* C32: as long as the overlay goes on, a turn of chat_mode whose LLM call  *)
(* succeeds appends to the history the submitted line as User and then the *)
(* answer text as Assistant, and leaves what was there as it was; every    *)
(* other turn (typing, paste, resize, Enter on an empty line, toggle)      *)
(* leaves the history as it is; the history has even length with roles     *)
(* alternating User, Assistant.                                            *)
HistoryAppendOnly ==
  [][(ChatTurn /\ mainPc' = "chat")
       => /\ chat'.history =
               IF calls_llm(chat, lastEvt') /\ llmLast'.ok
               THEN chat.history
                    \o << [role |-> "User", content |-> trim_end(chat.buf)],
                          [role |-> "Assistant", content |-> llmLast'.text] >>
               ELSE chat.history
          /\ Alternating(chat'.history)]_vars

(* Two round trips have been made in one overlay. *)
TwoRoundTrips ==
  /\ mainPc = "chat"
  /\ Len(chat.history) = 4

----------------------------------------------------------------------------
(* C33: the row count calculate_reply_rows gives for a reply, an expanded   *)
(* flag and a terminal width is at least the row count render_reply_block  *)
(* returns for the same arguments with max_rows the terminal's height, and *)
(* at least the rows the lines it prints take.                             *)
ReservedCoversDrawn ==
  (args.fn = "render_reply_block" /\ result.done)
    => /\ result.needed_rows >= result.rows
       /\ args.term_cols > 0
            => result.needed_rows >= RowsOccupied(result.lines, args.term_cols)

(* An expanded block has been cut to the terminal's height: fewer rows are *)
(* drawn than were computed beforehand.                                    *)
FewerRowsDrawnThanReserved ==
  /\ args.fn = "render_reply_block"
  /\ result.done
  /\ args.reasoning.some
  /\ args.reasoning_expanded
  /\ result.needed_rows > result.rows

----------------------------------------------------------------------------
(* C34: process leaves the pending buffer empty or starting with the       *)
(* escape byte, so that at the end of the stream finish hands nothing to   *)
(* its sink: the relay writes nothing to the terminal then, and the        *)
(* pending bytes are dropped.                                              *)
FinishWritesNothing ==
  [][/\ pending' = <<>> \/ pending'[1] = ESC
     /\ (relayPc' = "done" /\ relayPc # "done")
          => (stdout' = stdout /\ pending' = <<>>)]_vars

(* The stream ended inside an OSC sequence: its three bytes were pending   *)
(* and none of them was written.                                           *)
OpenOscDropped ==
  /\ relayPc = "done"
  /\ input = OscStart \o <<110>>
  /\ stdout = <<>>
  /\ pending = <<>>

----------------------------------------------------------------------------
(* C35: when chat_mode returns to the main loop, by accept or by cancel,   *)
(* the first byte the main loop writes into the PTY is a carriage return,  *)
(* written before anything else, and it writes no second one for that      *)
(* return; the Ctrl+L that enters the overlay is not written to the PTY.   *)
OverlayReturnSendsOneReturn ==
  [][/\ (mainPc = "chat" /\ mainPc' \in {"poll", "write"})
          => /\ ptyIn' = ptyIn \o << [b |-> 13, w |-> "cr", u |-> keys] >>
             /\ \A k \in 1..Len(mainQ') : mainQ'[k].w # "cr"
     /\ (mainPc = "poll" /\ mainPc' = "chat")
          => (ptyIn' = ptyIn /\ mainQ' = mainQ)
     /\ \A u \in 1..keys' :
          Cardinality({k \in 1..Len(ptyIn') :
                         ptyIn'[k].w = "cr" /\ ptyIn'[k].u = u}) <= 1
    ]_vars

(* The overlay has been left by Ctrl+C: a carriage return and nothing else *)
(* is in the PTY.                                                          *)
CancelSendsReturn ==
  /\ mainPc = "poll"
  /\ lastEvt = CtrlKey(99)
  /\ PtyBytes = <<13>>

----------------------------------------------------------------------------
(* C36: the command bytes that enter the PTY on accept are the UTF-8 bytes  *)
(* of the latest reply's suggested_command as the LLM gave it, line breaks *)
(* and surrounding white space included, not those of the normalised text  *)
(* of the candidate line.                                                  *)
InjectedCommandIsVerbatim ==
  [][(Len(ptyIn') > Len(ptyIn) /\ ptyIn'[Len(ptyIn')].w = "cmd")
       => /\ llmLast.suggested_command.some
          /\ PtyBytes' = PtyBytes \o as_bytes(llmLast.suggested_command.v)]_vars

(* The command " ls" with its line feed has been accepted and stands in    *)
(* the PTY after the carriage return, while the candidate line showed "ls".*)
CommandWithBreakInjected ==
  /\ lastEvt = AcceptKey
  /\ llmLast.suggested_command = Some(<<32, 108, 115, 10>>)
  /\ PtyBytes = <<13, 32, 108, 115, 10>>
  /\ normalize_to_single_line(llmLast.suggested_command.v) = <<108, 115>>

====
